---- MODULE Spec2Model ----
(***************************************************************************)
(* A model of the FlyPrivate flight data processor (flight_processor.py):  *)
(* the airport gazetteer, the text cleaning and coordinate resolution, the *)
(* four source adapters, the derived prices and the orchestrating          *)
(* process_flights_data.                                                   *)
(*                                                                         *)
(* Text is modelled character by character: a Python str is a sequence of  *)
(* one-character strings.  Characters outside ASCII carry a name           *)
(* ("e_acute", "A_tilde", "copy", "euro", "pound", "emdash", "TAB").       *)
(* Prices are exact decimals in hundredths; the binary64 rounding of the   *)
(* products in calculate_prices is modelled separately (RoundsUp).         *)
(***************************************************************************)
EXTENDS Integers, Sequences, FiniteSets, TLC

----------------------------------------------------------------------------
(* Python values.  A value read from a table is a str, or a missing cell   *)
(* (float NaN), or None.  A call either returns a value or raises.         *)

Str(s) == [t |-> "str", s |-> s]
None == [t |-> "none", s |-> <<>>]
NaN == [t |-> "float", s |-> <<>>]
IsStr(v) == v.t = "str"

Ret(v) == [exc |-> FALSE, val |-> v]
Exc == [exc |-> TRUE, val |-> <<>>]

\* Python None in a coordinate or a number position
NULL == -999

----------------------------------------------------------------------------
(* str methods *)

Drop(s, n) == SubSeq(s, n + 1, Len(s))

\* sub occurs in s at position i
OccursAt(s, sub, i) ==
    i + Len(sub) - 1 <= Len(s) /\ \A k \in 1..Len(sub) : s[i + k - 1] = sub[k]

\* s.startswith(p)
StartsWith(s, p) == OccursAt(s, p, 1)

\* the least number of a set of numbers, 0 for the empty set
Least(hits) == IF hits = {} THEN 0 ELSE CHOOSE i \in hits : \A j \in hits : i <= j

\* the least i in lo..hi with P(i), 0 when there is none
FirstIdx(lo, hi, P(_)) == Least({i \in lo..hi : P(i)})

\* s.find(sub) + 1: the first position of sub in s, 0 when there is none
Find(s, sub) == FirstIdx(1, Len(s) - Len(sub) + 1, LAMBDA i : OccursAt(s, sub, i))

\* sub in s
Contains(s, sub) == sub = <<>> \/ Find(s, sub) # 0

RECURSIVE Replace(_, _, _)
\* s.replace(old, new), old not empty: the occurrences from the left
Replace(s, old, new) ==
    LET i == Find(s, old)
    IN  IF i = 0 THEN s
        ELSE SubSeq(s, 1, i - 1) \o new \o Replace(Drop(s, i - 1 + Len(old)), old, new)

IsSpace(c) == c \in {" ", "TAB"}

LStrip(s) ==
    LET i == FirstIdx(1, Len(s), LAMBDA j : ~IsSpace(s[j]))
    IN  IF i = 0 THEN <<>> ELSE Drop(s, i - 1)

RStrip(s) ==
    LET i == FirstIdx(1, Len(s), LAMBDA j : \A k \in j..Len(s) : IsSpace(s[k]))
    IN  IF i = 0 THEN s ELSE SubSeq(s, 1, i - 1)

\* s.strip()
Strip(s) == RStrip(LStrip(s))

\* the length of the word s starts with
WordLen(s) ==
    LET i == FirstIdx(1, Len(s), LAMBDA j : IsSpace(s[j]))
    IN  IF i = 0 THEN Len(s) ELSE i - 1

RECURSIVE SplitWS(_)
\* s.split()
SplitWS(s) ==
    LET t == LStrip(s)
    IN  IF t = <<>> THEN <<>>
        ELSE <<SubSeq(t, 1, WordLen(t))>> \o SplitWS(Drop(t, WordLen(t)))

RECURSIVE SplitOn(_, _)
\* s.split(sep), sep not empty
SplitOn(s, sep) ==
    LET i == Find(s, sep)
    IN  IF i = 0 THEN <<s>>
        ELSE <<SubSeq(s, 1, i - 1)>> \o SplitOn(Drop(s, i - 1 + Len(sep)), sep)

RECURSIVE Join(_, _)
\* sep.join(parts)
Join(parts, sep) ==
    IF parts = <<>> THEN <<>>
    ELSE IF Len(parts) = 1 THEN parts[1]
    ELSE parts[1] \o sep \o Join(Tail(parts), sep)

UpperAZ == <<"A","B","C","D","E","F","G","H","I","J","K","L","M","N","O","P","Q","R","S","T","U","V","W","X","Y","Z">>
LowerAZ == <<"a","b","c","d","e","f","g","h","i","j","k","l","m","n","o","p","q","r","s","t","u","v","w","x","y","z">>
Digits == <<"0","1","2","3","4","5","6","7","8","9">>

IsUpper(c) == \E i \in 1..26 : UpperAZ[i] = c
IsDigit(c) == \E i \in 1..10 : Digits[i] = c
DigitVal(c) == (CHOOSE i \in 1..10 : Digits[i] = c) - 1

LowerChar(c) == IF IsUpper(c) THEN LowerAZ[CHOOSE i \in 1..26 : UpperAZ[i] = c] ELSE c

\* s.lower()
Lower(s) == [i \in 1..Len(s) |-> LowerChar(s[i])]

----------------------------------------------------------------------------
(* clean_city_name *)

\* bytes(name, 'utf-8').decode('unicode-escape'): every byte of the UTF-8
\* encoding is read back as one Latin-1 character, so a character outside
\* ASCII becomes two.  (A backslash starts an escape; the model's texts hold
\* none.)
DecodeChar(c) ==
    CASE c = "e_acute" -> <<"A_tilde", "copy">>
      [] c = "u_uml"   -> <<"A_tilde", "frac14">>
      [] c = "a_acute" -> <<"A_tilde", "iexcl">>
      [] c = "e_grave" -> <<"A_tilde", "uml">>
      [] c = "o_circ"  -> <<"A_tilde", "acute">>
      [] c = "euro"    -> <<"a_circ", "c82", "not">>
      [] c = "emdash"  -> <<"a_circ", "c80", "c94">>
      [] c \in {"copy", "frac14", "iexcl", "uml", "acute", "pound",
                "c80", "c82", "c94", "not"} -> <<"A_circ", c>>
      [] OTHER -> <<c>>

RECURSIVE UnicodeEscapeDecode(_)
UnicodeEscapeDecode(s) ==
    LET i == FirstIdx(1, Len(s), LAMBDA j : DecodeChar(s[j]) # <<s[j]>>)
    IN  IF i = 0 THEN s
        ELSE SubSeq(s, 1, i - 1) \o DecodeChar(s[i]) \o UnicodeEscapeDecode(Drop(s, i))

common_replacements == <<
    <<<<"Z","u_uml","r","i","c","h">>, <<"Z","u","r","i","c","h">>>>,
    <<<<"Z","A_tilde","frac14","r","i","c","h">>, <<"Z","u","r","i","c","h">>>>,
    <<<<"C","h","a","m","b","e_acute","r","y">>, <<"C","h","a","m","b","e","r","y">>>>,
    <<<<"C","h","a","m","b","A_tilde","copy","r","y">>, <<"C","h","a","m","b","e","r","y">>>>,
    <<<<"M","a_acute","l","a","g","a">>, <<"M","a","l","a","g","a">>>>,
    <<<<"M","A_tilde","iexcl","l","a","g","a">>, <<"M","a","l","a","g","a">>>>,
    <<<<"D","u_uml","s","s","e","l","d","o","r","f">>, <<"D","u","s","s","e","l","d","o","r","f">>>>,
    <<<<"D","A_tilde","frac14","s","s","e","l","d","o","r","f">>, <<"D","u","s","s","e","l","d","o","r","f">>>>,
    <<<<"L","i","e_grave","g","e">>, <<"L","i","e","g","e">>>>,
    <<<<"L","i","A_tilde","uml","g","e">>, <<"L","i","e","g","e">>>>,
    <<<<"G","e","n","e_grave","v","e">>, <<"G","e","n","e","v","a">>>>,
    <<<<"G","e","n","A_tilde","uml","v","e">>, <<"G","e","n","e","v","a">>>>,
    <<<<"V","a_acute","c","l","a","v">>, <<"V","a","c","l","a","v">>>>,
    <<<<"V","A_tilde","iexcl","c","l","a","v">>, <<"V","a","c","l","a","v">>>>,
    <<<<"N","i","c","e","-","C","o_circ","t","e">>, <<"N","i","c","e">>>>,
    <<<<"N","i","c","e","-","C","A_tilde","acute","t","e">>, <<"N","i","c","e">>>>,
    <<<<"O","r","l","e_acute","a","n","s">>, <<"O","r","l","e","a","n","s">>>>,
    <<<<"O","r","l","A_tilde","copy","a","n","s">>, <<"O","r","l","e","a","n","s">>>>,
    <<<<"H","y","e_grave","r","e","s">>, <<"H","y","e","r","e","s">>>>,
    <<<<"H","y","A_tilde","uml","r","e","s">>, <<"H","y","e","r","e","s">>>>,
    <<<<"M","e_acute","r","i","g","n","a","c">>, <<"B","o","r","d","e","a","u","x">>>>,
    <<<<"M","A_tilde","copy","r","i","g","n","a","c">>, <<"B","o","r","d","e","a","u","x">>>>,
    <<<<"P","a","r","i","s","-","L","e"," ","B","o","u","r","g","e","t">>, <<"P","a","r","i","s">>>>,
    <<<<"R","o","t","t","e","r","d","a","m"," ","T","h","e"," ","H","a","g","u","e">>, <<"R","o","t","t","e","r","d","a","m">>>>,
    <<<<"C","o_circ","t","e">>, <<"C","o","t","e">>>>,
    <<<<"C","A_tilde","acute","t","e">>, <<"C","o","t","e">>>>,
    <<<<"W","e","v","e","l","g","e","m">>, <<"B","r","u","x","e","l","l","e","s">>>> >>

RECURSIVE ApplyReplacements(_, _, _)
\* for accented, plain in table.items(): name = name.replace(accented, plain)
\* from entry `from` on (an entry whose text does not occur changes nothing)
ApplyReplacements(s, table, from) ==
    LET i == FirstIdx(from, Len(table), LAMBDA j : Contains(s, table[j][1]))
    IN  IF i = 0 THEN s
        ELSE ApplyReplacements(Replace(s, table[i][1], table[i][2]), table, i + 1)

\* s[i] opens a parenthesis that holds at least `least` characters up to the
\* first closing one
OpensParens(s, i, least) ==
    s[i] = "(" /\ Find(Drop(s, i), <<")">>) >= least + 1

RECURSIVE RemoveParens(_)
\* re.sub(r'\([^)]+\)', '', s): an opening parenthesis, at least one
\* character that is no closing parenthesis, and the closing parenthesis
RemoveParens(s) ==
    LET i == FirstIdx(1, Len(s), LAMBDA j : OpensParens(s, j, 1))
    IN  IF i = 0 THEN s
        ELSE SubSeq(s, 1, i - 1) \o RemoveParens(Drop(s, i + Find(Drop(s, i), <<")">>)))

\* unicodedata.normalize('NFD', c) without the combining marks
StripAccentChar(c) ==
    CASE c \in {"A_tilde", "A_circ"} -> "A"
      [] c \in {"e_acute", "e_grave"} -> "e"
      [] c = "u_uml" -> "u"
      [] c \in {"a_acute", "a_circ"} -> "a"
      [] c = "o_circ" -> "o"
      [] OTHER -> c

StripAccents(s) == [i \in 1..Len(s) |-> StripAccentChar(s[i])]

\* clean_city_name on a str
CleanStr(s) ==
    Strip(StripAccents(Strip(RemoveParens(
        ApplyReplacements(UnicodeEscapeDecode(s), common_replacements, 1)))))

\* clean_city_name(name): a value that is no str skips the cleaning and
\* fails at name.strip()
clean_city_name(name) == IF IsStr(name) THEN Ret(Str(CleanStr(name.s))) ELSE Exc

\* normalize_string(s)
normalize_string(s) ==
    IF IsStr(s) THEN Join(SplitWS(Strip(Lower(CleanStr(s.s)))), <<" ">>) ELSE <<>>

----------------------------------------------------------------------------
(* Python dict: the <<key, value>> pairs in insertion order; assigning to  *)
(* a key that is present keeps its position.                               *)

DictHas(d, k) == \E i \in 1..Len(d) : d[i][1] = k
DictGet(d, k) == d[CHOOSE i \in 1..Len(d) : d[i][1] = k][2]
DictSet(d, k, v) ==
    IF DictHas(d, k)
    THEN [i \in 1..Len(d) |-> IF d[i][1] = k THEN <<k, v>> ELSE d[i]]
    ELSE Append(d, <<k, v>>)
DictKeys(d) == {d[i][1] : i \in 1..Len(d)}

\* the index of the first key, in iteration order, that satisfies P; 0 if none
FirstKey(d, P(_)) == FirstIdx(1, Len(d), LAMBDA i : P(d[i][1]))

----------------------------------------------------------------------------
(* load_airports_data *)

EmptyAirports ==
    [by_city |-> <<>>, by_normalized_city |-> <<>>, by_iata |-> <<>>,
     by_icao |-> <<>>, cities_to_coords |-> <<>>]

\* bool(v) of a str or None
Truthy(v) == IsStr(v) /\ v.s # <<>>

\* row[col].strip() if not pd.isna(row[col]) else None
StripOrNone(v) == IF IsStr(v) THEN Str(Strip(v.s)) ELSE None

\* a faulty variant of RowIsIndexed: the latitude is not looked at
RowIsIndexedWithoutLatitude(row) ==
    /\ Truthy(StripOrNone(row.region_name))
    /\ row.longitude # NULL

\* the row has a city and both coordinates (line 128)
RowIsIndexed(row) ==
    /\ Truthy(StripOrNone(row.region_name))
    /\ row.latitude # NULL
    /\ row.longitude # NULL

\* cities_to_coords[normalized_city] = coords, on every indexed row
StoreCoords(c2c, normalized_city, coords) == DictSet(c2c, normalized_city, coords)

\* the entry is registered when normalized_city is not registered yet
IsFirstSeen(by_normalized_city, normalized_city) ==
    ~DictHas(by_normalized_city, normalized_city)

\* lines 138-145: the entry of a row
AirportData(row, city, normalized_city) ==
    [iata |-> StripOrNone(row.iata), icao |-> StripOrNone(row.icao),
     latitude |-> row.latitude, longitude |-> row.longitude,
     city |-> city, normalized_city |-> normalized_city]

\* lines 134-152: the coordinates are stored, and the entry is registered
\* when its normalized city is seen for the first time
StoreEntry(d, airport_data) ==
    LET city == airport_data.city
        normalized_city == airport_data.normalized_city
        iata == airport_data.iata
        icao == airport_data.icao
        coords == <<airport_data.latitude, airport_data.longitude>>
        d1 == [d EXCEPT !.cities_to_coords = StoreCoords(@, normalized_city, coords)]
    IN  IF IsFirstSeen(d.by_normalized_city, normalized_city)
        THEN [d1 EXCEPT
                !.by_normalized_city = DictSet(@, normalized_city, airport_data),
                !.by_city = IF city # <<>> THEN DictSet(@, city, airport_data) ELSE @,
                !.by_iata = IF Truthy(iata) THEN DictSet(@, iata.s, airport_data) ELSE @,
                !.by_icao = IF Truthy(icao) THEN DictSet(@, icao.s, airport_data) ELSE @]
        ELSE d1

\* lines 130-152, for the cleaned city of line 129
StoreCity(d, row, city) ==
    StoreEntry(d, AirportData(row, city, normalize_string(Str(city))))

\* one iteration of the loop over the reference rows (lines 123-152)
LoadAirportRow(d, row) ==
    IF RowIsIndexed(row)
    THEN StoreCity(d, row, CleanStr(StripOrNone(row.region_name).s))
    ELSE d

----------------------------------------------------------------------------
(* get_airport_coordinates *)

NoiseWords ==
    <<<<"i","n","t","e","r","n","a","t","i","o","n","a","l">>, <<"a","i","r","p","o","r","t">>, <<"a","i","r","f","i","e","l","d">>, <<"a","e","r","o","d","r","o","m","e">>, <<"t","e","r","m","i","n","a","l">>>>

\* w matches at the start of s, ignoring case
StartsWithCI(s, w) ==
    Len(w) <= Len(s) /\ \A i \in 1..Len(w) : LowerChar(s[i]) = w[i]

\* the length of the match of the pattern at s[i], 0 when it does not match
NoiseAt(s, i) ==
    LET t == Drop(s, i - 1)
        w == FirstIdx(1, Len(NoiseWords), LAMBDA k : StartsWithCI(t, NoiseWords[k]))
    IN  IF w # 0 THEN Len(NoiseWords[w])
        ELSE IF OpensParens(s, i, 0) THEN 1 + Find(Drop(s, i), <<")">>)
        ELSE 0

RECURSIVE RemoveNoise(_)
\* re.sub(r'international|airport|airfield|aerodrome|terminal|\(.*?\)', '',
\*        s, flags=re.IGNORECASE)
RemoveNoise(s) ==
    LET i == FirstIdx(1, Len(s), LAMBDA j : NoiseAt(s, j) # 0)
    IN  IF i = 0 THEN s
        ELSE SubSeq(s, 1, i - 1) \o RemoveNoise(Drop(s, i - 1 + NoiseAt(s, i)))

\* re.sub(r'-.*$', '', s)
RemoveAfterDash(s) ==
    IF Find(s, <<"-">>) = 0 THEN s ELSE SubSeq(s, 1, Find(s, <<"-">>) - 1)

city_mappings == <<
    <<<<"a","m","s","t","e","r","d","a","m"," ","s","c","h","i","p","h","o","l">>, <<"a","m","s","t","e","r","d","a","m">>>>,
    <<<<"p","a","r","i","s"," ","l","e"," ","b","o","u","r","g","e","t">>, <<"p","a","r","i","s">>>>,
    <<<<"p","a","r","i","s"," ","o","r","l","y">>, <<"p","a","r","i","s">>>>,
    <<<<"p","a","r","i","s"," ","c","d","g">>, <<"p","a","r","i","s">>>>,
    <<<<"l","o","n","d","o","n"," ","h","e","a","t","h","r","o","w">>, <<"l","o","n","d","o","n">>>>,
    <<<<"l","o","n","d","o","n"," ","g","a","t","w","i","c","k">>, <<"l","o","n","d","o","n">>>>,
    <<<<"l","o","n","d","o","n"," ","l","u","t","o","n">>, <<"l","o","n","d","o","n">>>>,
    <<<<"l","o","n","d","o","n"," ","s","t","a","n","s","t","e","d">>, <<"l","o","n","d","o","n">>>>,
    <<<<"l","o","n","d","o","n"," ","c","i","t","y">>, <<"l","o","n","d","o","n">>>>,
    <<<<"z","u","r","i","c","h"," ","k","l","o","t","e","n">>, <<"z","u","r","i","c","h">>>>,
    <<<<"g","e","n","e","v","a"," ","c","o","i","n","t","r","i","n">>, <<"g","e","n","e","v","a">>>>,
    <<<<"c","h","a","m","b","e","r","y"," ","a","i","x">>, <<"c","h","a","m","b","e","r","y">>>>,
    <<<<"n","i","c","e"," ","c","o","t","e">>, <<"n","i","c","e">>>>,
    <<<<"f","r","a","n","k","f","u","r","t"," ","m","a","i","n">>, <<"f","r","a","n","k","f","u","r","t">>>>,
    <<<<"f","r","a","n","k","f","u","r","t"," ","h","a","h","n">>, <<"f","r","a","n","k","f","u","r","t">>>>,
    <<<<"t","o","u","l","o","n","-","h","y","e","r","e","s">>, <<"t","o","u","l","o","n">>>>,
    <<<<"t","o","u","l","o","n"," ","h","y","e","r","e","s">>, <<"t","o","u","l","o","n">>>>,
    <<<<"c","i","a","m","p","i","n","o"," ","g"," ","b"," ","p","a","s","t","i","n","e">>, <<"r","o","m","e">>>>,
    <<<<"c","i","a","m","p","i","n","o","a"," ","g"," ","b"," ","p","a","s","t","i","n","e">>, <<"r","o","m","e">>>>,
    <<<<"c","i","a","m","p","i","n","o">>, <<"r","o","m","e">>>>,
    <<<<"v","a","c","l","a","v"," ","h","a","v","e","l">>, <<"p","r","a","g","u","e">>>>,
    <<<<"a","d","o","l","f","o"," ","l","o","p","e","z"," ","m","a","t","e","o","s">>, <<"m","e","x","i","c","o"," ","c","i","t","y">>>>,
    <<<<"f","a","a","'","a">>, <<"p","a","p","e","e","t","e">>>>,
    <<<<"a","b","e","i","d"," ","a","m","a","n","i"," ","k","a","r","u","m","e">>, <<"z","a","n","z","i","b","a","r">>>>,
    <<<<"e","d","i","n","b","u","r","g","h"," ","a","i","r","p","o","r","t">>, <<"e","d","i","n","b","u","r","g","h">>>>,
    <<<<"i","n","n","s","b","r","u","c","k"," ","a","i","r","p","o","r","t">>, <<"i","n","n","s","b","r","u","c","k">>>>,
    <<<<"s","p","e","y","e","r"," ","a","i","r","p","o","r","t">>, <<"s","p","e","y","e","r">>>>,
    <<<<"b","i","l","l","u","n","d"," ","a","i","r","p","o","r","t">>, <<"b","i","l","l","u","n","d">>>>,
    <<<<"k","e","e","t","m","a","n","s","h","o","o","p"," ","a","i","r","p","o","r","t">>, <<"k","e","e","t","m","a","n","s","h","o","o","p">>>> >>

RECURSIVE ApplyMappings(_, _, _)
\* for full_name, base_name in city_mappings.items():
\*     if full_name in location.lower(): location = base_name
\* from entry `from` on
ApplyMappings(location, table, from) ==
    LET lower == Lower(location)
        i == FirstIdx(from, Len(table), LAMBDA j : Contains(lower, table[j][1]))
    IN  IF i = 0 THEN location ELSE ApplyMappings(table[i][2], table, i + 1)

\* lines 176-221: the cleaned, mapped and lowercased name the tiers compare
NormalizedLocation(original) ==
    Lower(ApplyMappings(Strip(RemoveAfterDash(RemoveNoise(CleanStr(original)))),
                        city_mappings, 1))

\* re.search(r'\(([A-Z]{3,4})\)', s): the code of the first match, <<>> if none
CodeAt(s, i) ==
    IF /\ i + 4 <= Len(s) /\ s[i] = "("
       /\ \A j \in (i + 1)..(i + 3) : IsUpper(s[j])
       /\ s[i + 4] = ")"
    THEN SubSeq(s, i + 1, i + 3)
    ELSE IF /\ i + 5 <= Len(s) /\ s[i] = "("
            /\ \A j \in (i + 1)..(i + 4) : IsUpper(s[j])
            /\ s[i + 5] = ")"
    THEN SubSeq(s, i + 1, i + 4)
    ELSE <<>>

BracketedCode(s) ==
    LET i == FirstIdx(1, Len(s), LAMBDA j : CodeAt(s, j) # <<>>)
    IN  IF i = 0 THEN <<>> ELSE CodeAt(s, i)

NoCoords == <<NULL, NULL>>

\* the tiers' tests of one stored city against the normalized name
ExactMatch(normalized, stored_city) == normalized = Lower(stored_city)
SubstringMatch(normalized, stored_city) ==
    Contains(Lower(stored_city), normalized) \/ Contains(normalized, Lower(stored_city))
PrefixMatch(word, stored_city) == StartsWith(Lower(stored_city), word)

\* the index in cities_to_coords of the entry each tier returns, 0 for a miss
ExactTier(normalized, c2c) == FirstKey(c2c, LAMBDA k : ExactMatch(normalized, k))
SubstringTier(normalized, c2c) == FirstKey(c2c, LAMBDA k : SubstringMatch(normalized, k))
FirstWordTier(normalized, c2c) ==
    FirstKey(c2c, LAMBDA k : PrefixMatch(SplitWS(normalized)[1], k))
ThreeLetterTier(normalized, c2c) ==
    IF Len(normalized) >= 3
    THEN FirstKey(c2c, LAMBDA k : PrefixMatch(SubSeq(normalized, 1, 3), k))
    ELSE 0

\* lines 237-246: the coordinates registered under the bracketed code of the
\* original text, by IATA first and by ICAO second; <<>> for a miss
CodeTier(original, airports) ==
    LET code == BracketedCode(original)
    IN  IF code = <<>> THEN <<>>
        ELSE IF DictHas(airports.by_iata, code)
             THEN <<DictGet(airports.by_iata, code).latitude,
                    DictGet(airports.by_iata, code).longitude>>
        ELSE IF DictHas(airports.by_icao, code)
             THEN <<DictGet(airports.by_icao, code).latitude,
                    DictGet(airports.by_icao, code).longitude>>
        ELSE <<>>

----------------------------------------------------------------------------
(* Numbers.  A price is an exact decimal, counted in hundredths.           *)

RECURSIVE DigitsValue(_)
\* the number a text of digits writes
DigitsValue(s) ==
    IF s = <<>> THEN 0
    ELSE 10 * DigitsValue(SubSeq(s, 1, Len(s) - 1)) + DigitVal(s[Len(s)])

AllDigits(s) == \A i \in 1..Len(s) : IsDigit(s[i])

\* the number written by the digits `whole`, a point and the digits `frac`
Decimal(whole, frac) ==
    IF AllDigits(whole) /\ AllDigits(frac) /\ whole \o frac # <<>> /\ Len(frac) <= 2
    THEN Ret(100 * DigitsValue(whole)
             + DigitsValue(SubSeq(frac \o <<"0", "0">>, 1, 2)))
    ELSE Exc

\* the number a text writes whose first point is at position dot (0: none)
DecimalAt(t, dot) ==
    IF dot = 0 THEN Decimal(t, <<>>) ELSE Decimal(SubSeq(t, 1, dot - 1), Drop(t, dot))

\* float(text): whitespace around the number is ignored; the texts of the
\* model hold digits with at most one point and at most two decimals, and
\* anything else raises ValueError
FloatOfStripped(t) == DecimalAt(t, Find(t, <<".">>))
ParseFloat(text) == FloatOfStripped(Strip(text))

\* 4000, the placeholder price
DefaultPrice == 400000

----------------------------------------------------------------------------
(* calculate_prices *)

\* a faulty variant of Multipliers: the list runs one step further, to 3.1
MultipliersUpTo31 == <<20, 21, 22, 23, 24, 25, 26, 27, 28, 29, 30, 31>>

\* random.choice([2.0, 2.1, ..., 3.0]), in tenths
Multipliers == <<20, 21, 22, 23, 24, 25, 26, 27, 28, 29, 30>>

\* 1.2, in tenths
FlyPrivateMultiplier == 12

\* the ceiling of the exact product of a price and a multiplier
CeilMul(base, tenths) == (base * tenths + 999) \div 1000

\* The products are binary64: a multiplier that is no binary fraction is
\* stored slightly off, and where the exact product is a whole number the
\* rounded product can lie just above it, so that math.ceil gives one more.
\* These are the <<price, multiplier>> pairs of the model's prices where it
\* does (100 * 2.2 is 220.00000000000003).
RoundsUp == {
    <<2500, 22>>, <<4500, 22>>, <<5000, 22>>, <<5500, 22>>, <<8500, 22>>,
    <<9000, 22>>, <<9000, 27>>, <<9500, 22>>, <<10000, 22>>, <<10500, 22>>,
    <<11000, 22>>, <<11500, 22>>, <<350000, 22>>, <<520000, 22>>, <<520000, 27>>,
    <<610000, 22>>
    }

\* math.ceil(base_price * multiplier)
FloatCeilMul(base, tenths) ==
    CeilMul(base, tenths) + (IF <<base, tenths>> \in RoundsUp THEN 1 ELSE 0)

\* calculate_prices(base), with the multiplier random.choice drew
calculate_prices(base, multiplier) ==
    [charter_price |-> FloatCeilMul(base, multiplier),
     flyprivate_price |-> FloatCeilMul(base, FlyPrivateMultiplier)]

----------------------------------------------------------------------------
(* format_date *)

MonthNames == <<
    <<"J","a","n","u","a","r","y">>, <<"F","e","b","r","u","a","r","y">>, <<"M","a","r","c","h">>, <<"A","p","r","i","l">>, <<"M","a","y">>, <<"J","u","n","e">>, <<"J","u","l","y">>,
    <<"A","u","g","u","s","t">>, <<"S","e","p","t","e","m","b","e","r">>, <<"O","c","t","o","b","e","r">>, <<"N","o","v","e","m","b","e","r">>, <<"D","e","c","e","m","b","e","r">>>>

\* %B and %b: the month a name, or the first three letters of a name, names
\* (ignoring case); 0 when it names none
MonthOfName(word) ==
    FirstIdx(1, 12, LAMBDA m : Lower(word) = Lower(MonthNames[m]))
MonthOfAbbr(word) ==
    FirstIdx(1, 12, LAMBDA m : Lower(word) = Lower(SubSeq(MonthNames[m], 1, 3)))

\* %d: 3[01]|[12]\d|0[1-9]|[1-9]| [1-9], and %m: 1[0-2]|0[1-9]|[1-9]; 0 when
\* the text is none of these
DayOfText(t) ==
    LET u == IF Len(t) = 2 /\ t[1] = " " THEN <<t[2]>> ELSE t
    IN  IF Len(u) \in {1, 2} /\ AllDigits(u) /\ DigitsValue(u) \in 1..31
        THEN DigitsValue(u) ELSE 0
MonthOfText(t) ==
    IF Len(t) \in {1, 2} /\ AllDigits(t) /\ DigitsValue(t) \in 1..12
    THEN DigitsValue(t) ELSE 0
\* %Y: four digits; 0 when the text is not a year datetime accepts
YearOfText(t) == IF Len(t) = 4 /\ AllDigits(t) THEN DigitsValue(t) ELSE 0

IsLeap(y) == y % 4 = 0 /\ (y % 100 # 0 \/ y % 400 = 0)
DaysInMonth(y, m) ==
    IF m = 2 THEN (IF IsLeap(y) THEN 29 ELSE 28)
    ELSE IF m \in {4, 6, 9, 11} THEN 30 ELSE 31

\* datetime(y, m, d) exists
IsDate(y, m, d) == y >= 1 /\ m \in 1..12 /\ d >= 1 /\ d <= DaysInMonth(y, m)

NoDate == [ok |-> FALSE, year |-> 0, month |-> 0, day |-> 0]
Date(y, m, d) ==
    IF IsDate(y, m, d) THEN [ok |-> TRUE, year |-> y, month |-> m, day |-> d] ELSE NoDate

\* datetime.strptime(text, fmt) for the five formats, the year 1900 where
\* the format has none; NoDate for ValueError
DateFormats == <<"%Y-%m-%d", "%B %d", "%d %b", "%d/%m/%Y", "%d/%m">>

Strptime(text, fmt) ==
    LET dashed == SplitOn(text, <<"-">>)
        slashed == SplitOn(text, <<"/">>)
        words == SplitWS(text)
    IN  CASE fmt = "%Y-%m-%d" ->
                IF Len(dashed) = 3
                THEN Date(YearOfText(dashed[1]), MonthOfText(dashed[2]), DayOfText(dashed[3]))
                ELSE NoDate
          [] fmt = "%B %d" ->
                IF Len(words) = 2 /\ ~IsSpace(text[1]) /\ ~IsSpace(text[Len(text)])
                THEN Date(1900, MonthOfName(words[1]), DayOfText(words[2]))
                ELSE NoDate
          [] fmt = "%d %b" ->
                IF Len(words) = 2 /\ ~IsSpace(text[1]) /\ ~IsSpace(text[Len(text)])
                THEN Date(1900, MonthOfAbbr(words[2]), DayOfText(words[1]))
                ELSE NoDate
          [] fmt = "%d/%m/%Y" ->
                IF Len(slashed) = 3
                THEN Date(YearOfText(slashed[3]), MonthOfText(slashed[2]), DayOfText(slashed[1]))
                ELSE NoDate
          [] fmt = "%d/%m" ->
                IF Len(slashed) = 2
                THEN Date(1900, MonthOfText(slashed[2]), DayOfText(slashed[1]))
                ELSE NoDate

\* the year given to a month: 2024 to December, 2025 to the others
SeasonYear(month) == IF month = 12 THEN 2024 ELSE 2025

\* date_obj.replace(year=...): NoDate when the day does not exist in that year
WithSeasonYear(date) ==
    IF date.ok THEN Date(SeasonYear(date.month), date.month, date.day) ELSE NoDate

TwoDigits(n) == <<Digits[(n \div 10) + 1], Digits[(n % 10) + 1]>>

\* date_obj.strftime('%B %d')
MonthDay(date) == MonthNames[date.month] \o <<" ">> \o TwoDigits(date.day)

DefaultDate == <<"D","e","c","e","m","b","e","r"," ","2","5">>

\* str(v) of a cell
PyStr(v) == IF v.t = "float" THEN <<"n","a","n">> ELSE IF v.t = "none" THEN <<"N","o","n","e">> ELSE v.s

\* what each format, in the order of DateFormats, makes of the text
Attempts(text) ==
    [i \in 1..Len(DateFormats) |-> WithSeasonYear(Strptime(text, DateFormats[i]))]

\* the loop over the formats: the first attempt that did not raise is
\* returned, 'December 25' when every one raised
FirstAttempt(attempts, f) == IF f = 0 THEN DefaultDate ELSE MonthDay(attempts[f])
FormatAttempts(attempts) ==
    FirstAttempt(attempts, FirstIdx(1, Len(attempts), LAMBDA i : attempts[i].ok))

\* format_date(date_str): the first format, in the order of DateFormats,
\* that parses and takes the season's year
format_date(date_str) == FormatAttempts(Attempts(Strip(PyStr(date_str))))

\* lines 491-493: datetime(2024, 12, 25) when the date text did not parse
SortKey(date) ==
    IF date.ok THEN <<date.year, date.month, date.day>> ELSE <<2024, 12, 25>>

\* used by the faulty variant below: the year 2025 whatever the month
WithYear2025(date) == IF date.ok THEN Date(2025, date.month, date.day) ELSE NoDate

\* a faulty variant of SortDate: every month is given the year 2025
SortDateOneYear(date_text) == SortKey(WithYear2025(Strptime(date_text, "%B %d")))

\* lines 482-493: the date a flight is sorted by, as <<year, month, day>>
SortDate(date_text) == SortKey(WithSeasonYear(Strptime(date_text, "%B %d")))

DateLeq(a, b) ==
    \/ a[1] < b[1]
    \/ a[1] = b[1] /\ a[2] < b[2]
    \/ a[1] = b[1] /\ a[2] = b[2] /\ a[3] <= b[3]

----------------------------------------------------------------------------
(* estimate_duration and calculate_arrival_time *)

RECURSIVE IntText(_)
\* str(n) of a natural number
IntText(n) ==
    IF n < 10 THEN <<Digits[n + 1]>> ELSE IntText(n \div 10) \o <<Digits[(n % 10) + 1]>>

\* int((distance / 500) * 60 + 20) for the haversine distance between two
\* points, computed for the coordinates of the model
FlightMinutes == {
    <<<<43, 7, 43, 7>>, 20>>, <<<<43, 7, 45, 12>>, 74>>, <<<<43, 7, 41, 12>>, 76>>,
    <<<<43, 7, 42, 13>>, 80>>, <<<<43, 7, 51, 0>>, 144>>, <<<<43, 7, 0, 7>>, 593>>,
    <<<<43, 7, 0, 0>>, 599>>, <<<<45, 12, 43, 7>>, 74>>, <<<<45, 12, 45, 12>>, 20>>,
    <<<<45, 12, 41, 12>>, 73>>, <<<<45, 12, 42, 13>>, 61>>, <<<<45, 12, 51, 0>>, 153>>,
    <<<<45, 12, 0, 7>>, 623>>, <<<<45, 12, 0, 0>>, 636>>, <<<<41, 12, 43, 7>>, 76>>,
    <<<<41, 12, 45, 12>>, 73>>, <<<<41, 12, 41, 12>>, 20>>, <<<<41, 12, 42, 13>>, 36>>,
    <<<<41, 12, 51, 0>>, 193>>, <<<<41, 12, 0, 7>>, 570>>, <<<<41, 12, 0, 0>>, 586>>,
    <<<<42, 13, 43, 7>>, 80>>, <<<<42, 13, 45, 12>>, 61>>, <<<<42, 13, 41, 12>>, 36>>,
    <<<<42, 13, 42, 13>>, 20>>, <<<<42, 13, 51, 0>>, 188>>, <<<<42, 13, 0, 7>>, 585>>,
    <<<<42, 13, 0, 0>>, 601>>, <<<<51, 0, 43, 7>>, 144>>, <<<<51, 0, 45, 12>>, 153>>,
    <<<<51, 0, 41, 12>>, 193>>, <<<<51, 0, 42, 13>>, 188>>, <<<<51, 0, 51, 0>>, 20>>,
    <<<<51, 0, 0, 7>>, 705>>, <<<<51, 0, 0, 0>>, 700>>, <<<<0, 7, 43, 7>>, 593>>,
    <<<<0, 7, 45, 12>>, 623>>, <<<<0, 7, 41, 12>>, 570>>, <<<<0, 7, 42, 13>>, 585>>,
    <<<<0, 7, 51, 0>>, 705>>, <<<<0, 7, 0, 7>>, 20>>, <<<<0, 7, 0, 0>>, 113>>,
    <<<<0, 0, 43, 7>>, 599>>, <<<<0, 0, 45, 12>>, 636>>, <<<<0, 0, 41, 12>>, 586>>,
    <<<<0, 0, 42, 13>>, 601>>, <<<<0, 0, 51, 0>>, 700>>, <<<<0, 0, 0, 7>>, 113>>,
    <<<<0, 0, 0, 0>>, 20>>
    }

DefaultDuration == <<"1","h"," ","3","0","m">>

\* estimate_duration(lat1, lon1, lat2, lon2): `not all([...])` is true of a
\* None and of a 0.0 alike
estimate_duration(lat1, lon1, lat2, lon2) ==
    IF \E c \in {lat1, lon1, lat2, lon2} : c = NULL \/ c = 0
    THEN DefaultDuration
    ELSE LET total_minutes ==
                 (CHOOSE e \in FlightMinutes : e[1] = <<lat1, lon1, lat2, lon2>>)[2]
         IN  IntText(total_minutes \div 60) \o <<"h"," ">>
                 \o TwoDigits(total_minutes % 60) \o <<"m">>

\* int(text): whitespace around the digits is ignored
ParseInt(text) ==
    IF Strip(text) # <<>> /\ AllDigits(Strip(text))
    THEN Ret(DigitsValue(Strip(text))) ELSE Exc

RECURSIVE StripChar(_, _)
\* s.strip(c) for one character c
StripChar(s, c) ==
    IF s # <<>> /\ s[1] = c THEN StripChar(Tail(s), c)
    ELSE IF s # <<>> /\ s[Len(s)] = c THEN StripChar(SubSeq(s, 1, Len(s) - 1), c)
    ELSE s

DefaultArrival == <<"1","1",":","3","0">>

\* calculate_arrival_time(departure_time, duration)
calculate_arrival_time(departure_time, duration) ==
    LET dep == SplitOn(departure_time, <<":">>)
        dur == SplitOn(duration, <<"h">>)
    IN  IF Len(dep) # 2 \/ Len(dur) < 2 THEN DefaultArrival
        ELSE LET dep_hour == ParseInt(dep[1])
                 dep_minute == ParseInt(dep[2])
                 dur_hours == ParseInt(dur[1])
                 dur_minutes == ParseInt(StripChar(dur[2], "m"))
             IN  IF dep_hour.exc \/ dep_minute.exc \/ dur_hours.exc \/ dur_minutes.exc
                 THEN DefaultArrival
                 ELSE LET total_minutes == dep_minute.val + dur_minutes.val
                          total_hours == dep_hour.val + dur_hours.val + (total_minutes \div 60)
                      IN  TwoDigits(total_hours % 24) \o <<":">> \o TwoDigits(total_minutes % 60)

----------------------------------------------------------------------------
(* process_source_data: the four adapters.  A row is a record of cells;    *)
(* a cell is a str, a number (its text), a missing cell (NaN), or Missing  *)
(* when the table has no such column.                                      *)

Num(s) == [t |-> "int", s |-> s]
Missing == [t |-> "missing", s |-> <<>>]
Has(cell) == cell.t # "missing"

\* row.get(col, default)
GetOr(cell, default) == IF Has(cell) THEN cell ELSE default

\* ''.join(c for c in s if c.isdigit() or c == '.')
DigitsAndDots(s) ==
    LET keep == {i \in 1..Len(s) : IsDigit(s[i]) \/ s[i] = "."}
        nth(k) == CHOOSE i \in keep : Cardinality({j \in keep : j <= i}) = k
    IN  [k \in 1..Cardinality(keep) |-> s[nth(k)]]

\* `ret.val` of a call that returned, DefaultPrice for one that raised
OrDefaultPrice(ret) == IF ret.exc THEN DefaultPrice ELSE ret.val

\* a faulty variant of LuxPrice: the thousands separators are left in the
\* text given to float()
LuxPriceWithSeparators(cell) ==
    LET price_str == PyStr(cell)
    IN  IF Contains(price_str, <<"E","U","R">>)
        THEN OrDefaultPrice(ParseFloat(Strip(SplitOn(price_str, <<"E","U","R">>)[2])))
        ELSE IF DigitsAndDots(price_str) # <<>>
             THEN OrDefaultPrice(ParseFloat(DigitsAndDots(price_str)))
             ELSE DefaultPrice

\* lines 347-359
LuxPrice(cell) ==
    LET price_str == PyStr(cell)
    IN  IF Contains(price_str, <<"E","U","R">>)
        THEN OrDefaultPrice(ParseFloat(Replace(Strip(SplitOn(price_str, <<"E","U","R">>)[2]), <<",">>, <<>>)))
        ELSE IF DigitsAndDots(price_str) # <<>>
             THEN OrDefaultPrice(ParseFloat(DigitsAndDots(price_str)))
             ELSE DefaultPrice

CatchAJetPrefix == <<"B","o","o","k"," ","t","h","e"," ","e","n","t","i","r","e"," ","j","e","t"," ","f","o","r"," ","euro">>

\* 500, the least price CatchAJet is believed
SuspiciouslyLow == 50000

\* lines 378-381: a price that did not parse, or is below 500, is replaced
Believed(parsed) ==
    IF parsed.exc THEN DefaultPrice
    ELSE IF parsed.val < SuspiciouslyLow THEN DefaultPrice
    ELSE parsed.val

\* lines 375-381
CatchAJetPrice(cell) ==
    IF ~IsStr(cell) THEN DefaultPrice
    ELSE Believed(ParseFloat(Replace(Strip(Replace(cell.s, CatchAJetPrefix, <<>>)),
                                     <<",">>, <<>>)))

\* lines 394-395: no handler here, the exception leaves the adapter
MiraiPrice(cell) ==
    IF ~IsStr(cell) THEN Exc
    ELSE IF Len(SplitOn(cell.s, <<" ">>)) < 3 THEN Exc
    ELSE ParseFloat(DigitsAndDots(SplitOn(cell.s, <<" ">>)[3]))

\* base_price * 1.15 (the model multiplies whole prices only)
ToEUR(base) == (base * 115) \div 100

DefaultSovereignPrice == <<"pound","4","0","0","0">>

\* next(p for p in parts with a pound sign), the default part when none has
PricePart(parts) ==
    LET p == FirstIdx(1, Len(parts), LAMBDA i : Contains(parts[i], <<"pound">>))
    IN  IF p = 0 THEN DefaultSovereignPrice ELSE parts[p]

\* lines 411-413: the pounds in EUR, 4000 when the float() raised
PoundsOrDefault(parsed) == IF parsed.exc THEN DefaultPrice ELSE ToEUR(parsed.val)

\* lines 409-413
SovereignPrice(parts) ==
    PoundsOrDefault(ParseFloat(Replace(Replace(PricePart(parts), <<"pound">>, <<>>),
                                       <<",">>, <<>>)))

GroundTransportation == <<"G","r","o","u","n","d"," ","T","r","a","n","s","p","o","r","t","a","t","i","o","n">>
Catering == <<"C","a","t","e","r","i","n","g">>
MaxPassengers(text) == <<"M","a","x"," ","P","a","s","s","e","n","g","e","r","s",":"," ">> \o text

\* lines 337-344
LuxExtras(row) ==
    (IF Lower(PyStr(row.WiFi)) = <<"y","e","s">> THEN <<<<"W","i","F","i">>>> ELSE <<>>)
    \o (IF Lower(PyStr(row.Pets)) = <<"y","e","s">> THEN <<<<"P","e","t"," ","F","r","i","e","n","d","l","y">>>>
        ELSE IF Lower(PyStr(row.Pets)) = <<"n","o">> THEN <<<<"N","o"," ","P","e","t","s">>>> ELSE <<>>)
    \o (IF Lower(PyStr(row.Beds)) = <<"y","e","s">> THEN <<<<"B","e","d","s">>>> ELSE <<>>)

Parsed(origin, destination, aircraft, amenities, base) ==
    Ret([origin |-> origin, destination |-> destination, aircraft |-> aircraft,
         amenities |-> amenities, base_price |-> base])

\* lines 324-363: any exception skips the row
Luxaviation(row) ==
    IF ~IsStr(row.route) THEN Exc
    ELSE LET route_parts == SplitOn(row.route.s, <<" ","A","i","r","p","o","r","t"," ">>)
         IN  IF Len(route_parts) < 2 THEN Exc
             ELSE IF \E cell \in {row.aircraft, row.maxpax, row.WiFi, row.Pets,
                                  row.Beds, row.price} : ~Has(cell)
             THEN Exc
             ELSE Parsed(CleanStr(Strip(route_parts[1])), CleanStr(Strip(route_parts[2])),
                         row.aircraft,
                         <<GroundTransportation, Catering, MaxPassengers(PyStr(row.maxpax))>>
                             \o LuxExtras(row),
                         LuxPrice(row.price))

\* lines 368-381, with the two cities cleaned at lines 366-367
CatchAJetBetween(row, departure, arrival) ==
    IF departure.exc \/ arrival.exc \/ ~Has(row.maxpax)
    THEN Exc
    ELSE Parsed(departure.val.s, arrival.val.s,
                Str(<<"C","i","t","a","t","i","o","n"," ","C","J","2">>),
                <<GroundTransportation, Catering, MaxPassengers(PyStr(row.maxpax))>>,
                CatchAJetPrice(row.price))

\* lines 365-381
CatchAJet(row) ==
    CatchAJetBetween(row, clean_city_name(row.departure), clean_city_name(row.arrival))

\* lines 385-395, with the route split at line 384 and the price of
\* lines 394-395
MiraiBetween(row, route_parts, price) ==
    IF Len(route_parts) < 2 \/ ~IsStr(row.maxpax) \/ price.exc
    THEN Exc
    ELSE LET seats == SplitOn(row.maxpax.s, <<" ">>)
         IN  Parsed(CleanStr(Strip(route_parts[1])), CleanStr(Strip(route_parts[2])),
                    Str(<<"C","e","s","s","n","a"," ","C","i","t","a","t","i","o","n"," ","C","J","2">>),
                    <<GroundTransportation, Catering, MaxPassengers(seats[Len(seats)])>>,
                    price.val)

\* lines 383-395
Mirai(row) ==
    IF ~IsStr(row.route) THEN Exc
    ELSE MiraiBetween(row, SplitOn(row.route.s, <<" ","emdash"," ">>), MiraiPrice(row.price))

\* [clean_city_name(p.strip()) for p in text.split('\t') if p.strip()]
CleanParts(text) ==
    LET pieces == SplitOn(text, <<"TAB">>)
        keep == {i \in 1..Len(pieces) : Strip(pieces[i]) # <<>>}
        nth(k) == CHOOSE i \in keep : Cardinality({j \in keep : j <= i}) = k
    IN  [k \in 1..Cardinality(keep) |-> CleanStr(Strip(pieces[nth(k)]))]

\* lines 400-417, with the parts of line 399
SovereignOfParts(parts) ==
    IF Len(parts) < 2 THEN Exc
    ELSE Parsed(<<"L","o","n","d","o","n">>,
                IF Len(parts) > 2 THEN parts[3] ELSE parts[2],
                IF Len(parts) > 3 THEN Str(parts[Len(parts)]) ELSE Str(<<"C","i","t","a","t","i","o","n"," ","J","e","t">>),
                <<GroundTransportation, Catering, MaxPassengers(<<"6">>)>>,
                SovereignPrice(parts))

\* lines 397-417
Sovereign(row) ==
    IF ~IsStr(row.flightinfo) THEN Exc
    ELSE SovereignOfParts(CleanParts(row.flightinfo.s))

\* the adapter source.lower() selects
Adapter(source, row) ==
    CASE source = "luxaviation" -> Luxaviation(row)
      [] source = "catchajet" -> CatchAJet(row)
      [] source = "mirai" -> Mirai(row)
      [] source = "sovereign" -> Sovereign(row)

----------------------------------------------------------------------------
(* Inputs *)

\* reference rows read per run
MaxRefRows == 3

R_Nice == [region_name |-> Str(<<"N","i","c","e">>), iata |-> Str(<<"N","C","E">>), icao |-> Str(<<"L","F","M","N">>),
           latitude |-> 43, longitude |-> 7]
R_Venice == [region_name |-> Str(<<"V","e","n","i","c","e">>), iata |-> Str(<<"V","C","E">>), icao |-> NaN,
             latitude |-> 45, longitude |-> 12]
R_RomeFCO == [region_name |-> Str(<<"R","o","m","e">>), iata |-> Str(<<"F","C","O">>), icao |-> Str(<<"L","I","R","F">>),
              latitude |-> 41, longitude |-> 12]
R_RomeCIA == [region_name |-> Str(<<" ","R","o","m","e"," ","(","C","i","a","m","p","i","n","o",")">>), iata |-> Str(<<"C","I","A">>), icao |-> NaN,
              latitude |-> 42, longitude |-> 13]
R_London == [region_name |-> Str(<<"L","o","n","d","o","n">>), iata |-> Str(<<"L","H","R">>), icao |-> Str(<<"E","G","L","L">>),
             latitude |-> 51, longitude |-> 0]
R_OsloNoLat == [region_name |-> Str(<<"O","s","l","o">>), iata |-> Str(<<"O","S","L">>), icao |-> Str(<<"E","N","G","M">>),
                latitude |-> NULL, longitude |-> 11]
R_NoCity == [region_name |-> NaN, iata |-> Str(<<"X","X","X">>), icao |-> NaN,
             latitude |-> 50, longitude |-> 50]

RefRows == {R_Nice, R_Venice, R_RomeFCO, R_RomeCIA, R_London, R_OsloNoLat, R_NoCity}

RECURSIVE SeqsUpTo(_, _)
\* the sequences over S of length at most n
SeqsUpTo(S, n) ==
    IF n = 0 THEN {<<>>}
    ELSE LET shorter == SeqsUpTo(S, n - 1)
         IN  shorter \cup {Append(q, x) : q \in shorter, x \in S}

\* the place names looked up directly
PlaceNames ==
    { Str(<<"N","i","c","e">>), Str(<<"R","o","m","e">>), Str(<<"N","i","c","e"," ","I","n","t","e","r","n","a","t","i","o","n","a","l"," ","A","i","r","p","o","r","t">>),
      Str(<<"R","o","m","a"," ","C","i","a","m","p","i","n","o">>), Str(<<"V","e","n"," ","L","i","d","o">>), Str(<<"V","e","n","x","x">>), Str(<<"X","y","z"," ","(","N","C","E",")">>),
      Str(<<"L","y","o","n"," ","(","L","I","R","F",")">>), Str(<<"O","s","l","o">>), Str(<<"A","i","r","p","o","r","t">>), Str(<<>>), None, NaN }

----------------------------------------------------------------------------
(* Source rows.  A table has the columns of its source; `date` and         *)
(* `thumbnail` are optional columns.                                       *)

NoColumns ==
    [route |-> Missing, departure |-> Missing, arrival |-> Missing,
     flightinfo |-> Missing, aircraft |-> Missing, maxpax |-> Missing,
     WiFi |-> Missing, Pets |-> Missing, Beds |-> Missing, price |-> Missing,
     date |-> Missing, thumbnail |-> Missing]

LuxRow(route, aircraft, maxpax, wifi, pets, beds, price, date, thumbnail) ==
    [NoColumns EXCEPT !.route = route, !.aircraft = aircraft, !.maxpax = maxpax,
                      !.WiFi = wifi, !.Pets = pets, !.Beds = beds, !.price = price,
                      !.date = date, !.thumbnail = thumbnail]
CatchAJetRow(departure, arrival, maxpax, price, date) ==
    [NoColumns EXCEPT !.departure = departure, !.arrival = arrival,
                      !.maxpax = maxpax, !.price = price, !.date = date]
MiraiRow(route, maxpax, price, date) ==
    [NoColumns EXCEPT !.route = route, !.maxpax = maxpax, !.price = price, !.date = date]
SovereignRow(flightinfo, date) ==
    [NoColumns EXCEPT !.flightinfo = flightinfo, !.date = date]

L_ParisNice == LuxRow(Str(<<"P","a","r","i","s"," ","A","i","r","p","o","r","t"," ","N","i","c","e">>), Str(<<"C","i","t","a","t","i","o","n"," ","X","L","S">>), Num(<<"8">>),
                      Str(<<"Y","e","s">>), Str(<<"N","o">>), NaN, Str(<<"E","U","R"," ","3",",","5","0","0">>),
                      Str(<<"2","0","2","4","-","1","2","-","2","5">>), Str(<<"l","u","x",".","j","p","g">>))
L_Cheap == LuxRow(Str(<<"N","i","c","e"," ","A","i","r","p","o","r","t"," ","R","o","m","e">>), Str(<<"C","i","t","a","t","i","o","n"," ","X","L","S">>), Num(<<"8">>),
                  Str(<<"n","o">>), Str(<<"y","e","s">>), Str(<<"Y","E","S">>), Str(<<"E","U","R"," ","5","0">>),
                  Str(<<"5"," ","J","a","n">>), Missing)
L_NoPrice == LuxRow(Str(<<"R","o","m","e"," ","A","i","r","p","o","r","t"," ","N","i","c","e">>), NaN, NaN,
                    Str(<<"Y","e","s">>), Str(<<"N","o">>), NaN, Str(<<"P","O","A">>),
                    Str(<<"1","5","/","0","6">>), Missing)
L_NoSeparator == LuxRow(Str(<<"N","i","c","e"," ","t","o"," ","R","o","m","e">>), Str(<<"C","i","t","a","t","i","o","n"," ","X","L","S">>), Num(<<"8">>),
                        Str(<<"Y","e","s">>), Str(<<"N","o">>), NaN, Str(<<"E","U","R"," ","3",",","5","0","0">>),
                        Str(<<"D","e","c","e","m","b","e","r"," ","2","0">>), Missing)
L_Coded == LuxRow(Str(<<"X","y","z"," ","(","N","C","E",")"," ","A","i","r","p","o","r","t"," ","R","o","m","e">>), Str(<<"C","i","t","a","t","i","o","n"," ","X","L","S">>), Num(<<"8">>),
                  Str(<<"Y","e","s">>), Str(<<"N","o">>), NaN, Str(<<"E","U","R"," ","3",",","5","0","0">>),
                  Str(<<"D","e","c","e","m","b","e","r"," ","2","0">>), Missing)

C_NiceRome == CatchAJetRow(Str(<<"N","i","c","e">>), Str(<<"R","o","m","e">>), Num(<<"6">>),
                           Str(<<"B","o","o","k"," ","t","h","e"," ","e","n","t","i","r","e"," ","j","e","t"," ","f","o","r"," ","euro","5",",","2","0","0">>), Str(<<"D","e","c","e","m","b","e","r"," ","2","0">>))
C_Low == CatchAJetRow(Str(<<"R","o","m","e">>), Str(<<"N","i","c","e">>), Num(<<"6">>),
                      Str(<<"B","o","o","k"," ","t","h","e"," ","e","n","t","i","r","e"," ","j","e","t"," ","f","o","r"," ","euro","4","5","0">>), Str(<<"5"," ","J","a","n">>))
C_CallUs == CatchAJetRow(Str(<<"N","i","c","e">>), Str(<<"L","o","n","d","o","n">>), Num(<<"6">>),
                         Str(<<"C","a","l","l"," ","u","s">>), Str(<<"0","1","/","0","2","/","2","0","2","5">>))
C_NoDeparture == CatchAJetRow(NaN, Str(<<"R","o","m","e">>), Num(<<"6">>),
                              Str(<<"B","o","o","k"," ","t","h","e"," ","e","n","t","i","r","e"," ","j","e","t"," ","f","o","r"," ","euro","5",",","2","0","0">>), Str(<<"D","e","c","e","m","b","e","r"," ","2","0">>))

M_NiceRome == MiraiRow(Str(<<"N","i","c","e"," ","emdash"," ","R","o","m","e">>), Str(<<"U","p"," ","t","o"," ","7">>), Str(<<"F","r","o","m"," ","euro"," ","6",",","1","0","0">>),
                       Str(<<"2","0","2","4","-","0","2","-","2","9">>))
M_OnRequest == MiraiRow(Str(<<"N","i","c","e"," ","emdash"," ","R","o","m","e">>), Str(<<"U","p"," ","t","o"," ","7">>), Str(<<"P","r","i","c","e"," ","o","n"," ","r","e","q","u","e","s","t">>),
                        Str(<<"D","e","c","e","m","b","e","r"," ","2","0">>))

S_Full == SovereignRow(Str(<<"1","2"," ","J","a","n","TAB","L","o","n","d","o","n","TAB","N","i","c","e","TAB","pound","2",",","5","0","0","TAB","C","i","t","a","t","i","o","n"," ","M","u","s","t","a","n","g">>), Str(<<"1","2"," ","J","a","n">>))
S_Short == SovereignRow(Str(<<"L","o","n","d","o","n","TAB","R","o","m","e">>), Missing)
S_OnePart == SovereignRow(Str(<<"N","i","c","e">>), Str(<<"D","e","c","e","m","b","e","r"," ","2","0">>))

\* run_processor.py: the sources, in the order they are processed
Sources == <<"luxaviation", "catchajet", "mirai", "sovereign">>

\* the rows a table of each source may hold
SourceRows(source) ==
    CASE source = "luxaviation" -> {L_ParisNice, L_Cheap, L_NoPrice, L_NoSeparator, L_Coded}
      [] source = "catchajet" -> {C_NiceRome, C_Low, C_CallUs, C_NoDeparture}
      [] source = "mirai" -> {M_NiceRome, M_OnRequest}
      [] source = "sovereign" -> {S_Full, S_Short, S_OnePart}

\* source rows read per run, over all tables
MaxRows == 2

\* source files per run that are missing or unreadable
MaxFaults == 1

\* the reference table of the runs that process sources
PipelineRefRows == <<R_Nice, R_RomeFCO, R_RomeCIA, R_London>>

\* base prices quoted: the halves of a unit up to this many units
MaxBasePrice == 120
BasePrices == {50 * k : k \in 1..(2 * MaxBasePrice)}

\* calls of get_airport_coordinates made in a row on one gazetteer
MaxLookups == 3

\* the reference tables the calls are made on, and the place names looked up
LookupTables ==
    {<<>>, <<R_Venice, R_Nice>>, <<R_Nice, R_RomeFCO, R_RomeCIA>>, <<R_London, R_NoCity>>}
LookupNames ==
    { Str(<<"N","i","c","e">>), Str(<<"R","o","m","e">>), Str(<<"X","y","z"," ","(","N","C","E",")">>), Str(<<"V","e","n"," ","L","i","d","o">>),
      Str(<<"R","o","m","a"," ","C","i","a","m","p","i","n","o">>), NaN, None }

----------------------------------------------------------------------------
(* get_airport_coordinates: the tiers *)

\* a faulty variant of Tiers: the substring tier is tried before the exact
\* tier
TiersSubstringFirst(original, normalized, airports, c2c) ==
    IF SubstringTier(normalized, c2c) # 0
    THEN Ret(c2c[SubstringTier(normalized, c2c)][2])
    ELSE IF ExactTier(normalized, c2c) # 0
    THEN Ret(c2c[ExactTier(normalized, c2c)][2])
    ELSE IF SplitWS(normalized) = <<>>
    THEN Exc
    ELSE IF FirstWordTier(normalized, c2c) # 0
    THEN Ret(c2c[FirstWordTier(normalized, c2c)][2])
    ELSE IF CodeTier(original, airports) # <<>>
    THEN Ret(CodeTier(original, airports))
    ELSE IF ThreeLetterTier(normalized, c2c) # 0
    THEN Ret(c2c[ThreeLetterTier(normalized, c2c)][2])
    ELSE Ret(NoCoords)

\* lines 221-256: the tiers in their order, for the original text and its
\* normalized name; c2c is airports['cities_to_coords']
Tiers(original, normalized, airports, c2c) ==
    IF ExactTier(normalized, c2c) # 0
    THEN Ret(c2c[ExactTier(normalized, c2c)][2])
    ELSE IF SubstringTier(normalized, c2c) # 0
    THEN Ret(c2c[SubstringTier(normalized, c2c)][2])
    ELSE IF SplitWS(normalized) = <<>>
    THEN Exc                              \* normalized.split()[0]: IndexError
    ELSE IF FirstWordTier(normalized, c2c) # 0
    THEN Ret(c2c[FirstWordTier(normalized, c2c)][2])
    ELSE IF CodeTier(original, airports) # <<>>
    THEN Ret(CodeTier(original, airports))
    ELSE IF ThreeLetterTier(normalized, c2c) # 0
    THEN Ret(c2c[ThreeLetterTier(normalized, c2c)][2])
    ELSE Ret(NoCoords)

\* the body of the try block (lines 170-256): the pair returned, or the
\* exception raised
ResolveTiers(location, airports) ==
    IF ~IsStr(location) THEN Exc          \* clean_city_name: no strip() on a float
    ELSE Tiers(location.s, NormalizedLocation(location.s), airports,
               airports.cities_to_coords)

\* not location: None and the empty str are false, a float NaN is true
IsFalsy(location) == location = None \/ location = Str(<<>>)

\* a faulty variant of CatchAll: the exception is let through
CatchNothing(r) == r

\* except Exception: return None, None (lines 258-260)
CatchAll(r) == IF r.exc THEN Ret(NoCoords) ELSE r

\* get_airport_coordinates(location, airports)
get_airport_coordinates(location, airports) ==
    IF IsFalsy(location) THEN Ret(NoCoords)
    ELSE CatchAll(ResolveTiers(location, airports))

----------------------------------------------------------------------------
(* process_source_data: the record of a row *)

DefaultThumbnail == Str(<<"/","a","p","i","/","p","l","a","c","e","h","o","l","d","e","r","/","4","0","0","/","3","2","0">>)
DepartureTime == <<"1","0",":","0","0">>

\* lines 432-450: the record.  (The random 12-digit id is left out.)
FlightRecord(source, row, parsed, from, to, priced, duration) ==
    [thumbnail |-> GetOr(row.thumbnail, DefaultThumbnail),
     origin |-> parsed.origin,
     destination |-> parsed.destination,
     originLat |-> from[1], originLon |-> from[2],
     destLat |-> to[1], destLon |-> to[2],
     charterPrice |-> priced.charter_price,
     flyPrivatePrice |-> priced.flyprivate_price,
     date |-> format_date(GetOr(row.date, Str(DefaultDate))),
     duration |-> duration,
     departureTime |-> DepartureTime,
     arrivalTime |-> calculate_arrival_time(DepartureTime, duration),
     aircraft |-> parsed.aircraft,
     amenities |-> parsed.amenities,
     operatedBy |-> source]

\* lines 426-450: the duration between the two places, then the record
TimedRecord(source, row, parsed, from, to, priced) ==
    FlightRecord(source, row, parsed, from, to, priced,
                 estimate_duration(from[1], from[2], to[1], to[2]))

\* lines 419-450: the coordinates of the two places and the prices, with the
\* multiplier drawn for the row, then the record
LocatedRecord(source, row, parsed, multiplier, airports) ==
    TimedRecord(source, row, parsed,
                get_airport_coordinates(Str(parsed.origin), airports).val,
                get_airport_coordinates(Str(parsed.destination), airports).val,
                calculate_prices(parsed.base_price, multiplier))

\* a faulty variant of AfterAdapter: a row that raises ends the loop and the
\* source gives []
AfterAdapterOrAbort(list, source, row, adapted, multiplier, airports) ==
    IF adapted.exc THEN <<>>
    ELSE Append(list, LocatedRecord(source, row, adapted.val, multiplier, airports))

\* lines 419-458, after the adapter of the source returned or raised: the
\* record is appended, or `except Exception: continue` skips the row
AfterAdapter(list, source, row, adapted, multiplier, airports) ==
    IF adapted.exc THEN list
    ELSE Append(list, LocatedRecord(source, row, adapted.val, multiplier, airports))

\* one iteration of the loop over the rows (lines 319-458): the list with
\* the row's record appended, or the list as it was when the row raised
ProcessSourceRow(list, source, row, multiplier, airports) ==
    AfterAdapter(list, source, row, Adapter(source, row), multiplier, airports)

----------------------------------------------------------------------------
(* process_flights_data: sorting and filtering *)

\* list.insert(later - 1, f), at the end when later is 0
InsertBefore(sorted, later, f) ==
    IF later = 0 THEN Append(sorted, f)
    ELSE SubSeq(sorted, 1, later - 1) \o <<f>> \o Drop(sorted, later - 1)

\* f is put after the last element that does not sort after it
InsertByDate(sorted, f) ==
    InsertBefore(sorted,
                 FirstIdx(1, Len(sorted),
                          LAMBDA i : ~DateLeq(SortDate(sorted[i].date), SortDate(f.date))),
                 f)

RECURSIVE SortByDate(_)
\* sorted(all_flights, key=lambda x: x['_sort_date']): ascending and stable
SortByDate(list) ==
    IF list = <<>> THEN <<>>
    ELSE InsertByDate(SortByDate(SubSeq(list, 1, Len(list) - 1)), list[Len(list)])

\* 100, the least flyPrivatePrice line 523 keeps
MinFlyPrivatePrice == 100

\* [f for f in all_flights if f['flyPrivatePrice'] >= 100]
KeepPriced(list) ==
    LET keep == {i \in 1..Len(list) : list[i].flyPrivatePrice >= MinFlyPrivatePrice}
        nth(k) == CHOOSE i \in keep : Cardinality({j \in keep : j <= i}) = k
    IN  [k \in 1..Cardinality(keep) |-> list[nth(k)]]

\* None in [originLat, originLon, destLat, destLon]
MissingCoords(f) == NULL \in {f.originLat, f.originLon, f.destLat, f.destLon}

----------------------------------------------------------------------------
(* State *)

VARIABLES
    pc,             \* where process_flights_data stands
    ref_table,      \* the reference table: its file status and its rows
    ref_pos,        \* the number of reference rows read
    airports_dict,  \* the gazetteer indices
    resolved,       \* the last direct lookup: the name and what was returned
    tables,         \* the source tables opened so far: file status, rows read,
                    \* and per row the base price parsed (NULL: row skipped)
    src_pos,        \* the number of sources process_flights_data is done with
    flights,        \* process_source_data: the records of the open source
    all_flights,    \* process_flights_data: the aggregated records
    sorted_flights, \* the records serialised into the returned text
    base_price,     \* a direct call of calculate_prices: its argument
    prices,         \* and what it returned
    dur_call,       \* a direct call of estimate_duration: arguments and result
    date_call,      \* a direct call of format_date: argument and result
    lookups         \* the calls of get_airport_coordinates a caller made on
                    \* one gazetteer, in order: argument and result of each

vars == <<pc, ref_table, ref_pos, airports_dict, resolved,
          tables, src_pos, flights, all_flights, sorted_flights,
          base_price, prices, dur_call, date_call, lookups>>

gaz_vars == <<ref_table, ref_pos, airports_dict, resolved>>
run_vars == <<tables, src_pos, flights, all_flights, sorted_flights>>
price_vars == <<base_price, prices>>
call_vars == <<dur_call, date_call, lookups>>

NoPrices == [charter_price |-> NULL, flyprivate_price |-> NULL]

NoLookup == [location |-> None, result |-> Ret(NoCoords), called |-> FALSE]

\* estimate_duration and format_date before they are called
NoDurationCall == [coords |-> <<NULL, NULL, NULL, NULL>>, result |-> <<>>, called |-> FALSE]
NoDateCall == [arg |-> None, result |-> <<>>, called |-> FALSE]

InitState ==
    /\ pc = "load"
    /\ ref_pos = 0
    /\ airports_dict = EmptyAirports
    /\ resolved = NoLookup
    /\ tables = <<>>
    /\ src_pos = 0
    /\ flights = <<>>
    /\ all_flights = <<>>
    /\ sorted_flights = <<>>
    /\ prices = NoPrices
    /\ lookups = <<>>

(* load_airports_data *)

\* the path does not exist: FileNotFoundError leaves process_flights_data
LoadMissing ==
    /\ pc = "load"
    /\ ref_table.status = "missing"
    /\ pc' = "failed"
    /\ UNCHANGED <<gaz_vars, run_vars, price_vars, call_vars>>

\* pd.read_csv raises on the table: nothing catches it either
LoadUnreadable ==
    /\ pc = "load"
    /\ ref_table.status = "unreadable"
    /\ pc' = "failed"
    /\ UNCHANGED <<gaz_vars, run_vars, price_vars, call_vars>>

\* one iteration of the loop of load_airports_data
LoadRow ==
    /\ pc = "load"
    /\ ref_table.status = "ok"
    /\ ref_pos < Len(ref_table.rows)
    /\ airports_dict' = LoadAirportRow(airports_dict, ref_table.rows[ref_pos + 1])
    /\ ref_pos' = ref_pos + 1
    /\ UNCHANGED <<pc, ref_table, resolved, run_vars, price_vars, call_vars>>

\* load_airports_data returns the indices
LoadDone ==
    /\ pc = "load"
    /\ ref_table.status = "ok"
    /\ ref_pos = Len(ref_table.rows)
    /\ pc' = "sources"
    /\ UNCHANGED <<gaz_vars, run_vars, price_vars, call_vars>>

\* a call of get_airport_coordinates on the loaded gazetteer
Resolve ==
    /\ pc = "sources"
    /\ \E location \in PlaceNames :
          resolved' = [location |-> location,
                       result |-> get_airport_coordinates(location, airports_dict),
                       called |-> TRUE]
    /\ UNCHANGED <<pc, ref_table, ref_pos, airports_dict, run_vars, price_vars, call_vars>>

(* process_source_data, called for the sources in order *)

SourceIsOpen == Len(tables) = src_pos + 1
RowsRead ==
    LET RECURSIVE Sum(_)
        Sum(i) == IF i = 0 THEN 0 ELSE Len(tables[i].rows) + Sum(i - 1)
    IN  Sum(Len(tables))

\* the number of source files that could not be read so far
Faults == Cardinality({i \in 1..Len(tables) : tables[i].status # "ok"})

\* the file of the next source does not exist: the source gives []
SourceMissing ==
    /\ pc = "sources" /\ ~SourceIsOpen /\ src_pos < Len(Sources)
    /\ Faults < MaxFaults
    /\ tables' = Append(tables, [status |-> "missing", rows |-> <<>>, parsed |-> <<>>])
    /\ src_pos' = src_pos + 1
    /\ UNCHANGED <<pc, gaz_vars, flights, all_flights, sorted_flights, price_vars, call_vars>>

\* pd.read_csv raises on the file of the next source: the source gives []
SourceUnreadable ==
    /\ pc = "sources" /\ ~SourceIsOpen /\ src_pos < Len(Sources)
    /\ Faults < MaxFaults
    /\ tables' = Append(tables, [status |-> "unreadable", rows |-> <<>>, parsed |-> <<>>])
    /\ src_pos' = src_pos + 1
    /\ UNCHANGED <<pc, gaz_vars, flights, all_flights, sorted_flights, price_vars, call_vars>>

\* the file of the next source is read
SourceOpen ==
    /\ pc = "sources" /\ ~SourceIsOpen /\ src_pos < Len(Sources)
    /\ tables' = Append(tables, [status |-> "ok", rows |-> <<>>, parsed |-> <<>>])
    /\ flights' = <<>>
    /\ UNCHANGED <<pc, gaz_vars, src_pos, all_flights, sorted_flights, price_vars, call_vars>>

\* the value of base_price when the row's record is built, NULL when the
\* row raised before
BasePriceOrNull(adapted) == IF adapted.exc THEN NULL ELSE adapted.val.base_price
BasePriceOf(source, row) == BasePriceOrNull(Adapter(source, row))

\* one iteration of the loop over the rows of the open source
ProcessRow ==
    /\ pc = "sources" /\ SourceIsOpen /\ RowsRead < MaxRows
    /\ \E row \in SourceRows(Sources[src_pos + 1]), m \in 1..Len(Multipliers) :
          /\ flights' = ProcessSourceRow(flights, Sources[src_pos + 1], row,
                                         Multipliers[m], airports_dict)
          /\ tables' = [tables EXCEPT
                           ![src_pos + 1].rows = Append(@, row),
                           ![src_pos + 1].parsed =
                               Append(@, BasePriceOf(Sources[src_pos + 1], row))]
    /\ UNCHANGED <<pc, gaz_vars, src_pos, all_flights, sorted_flights, price_vars, call_vars>>

\* the open source has no more rows: all_flights.extend(flights)
SourceDone ==
    /\ pc = "sources" /\ SourceIsOpen
    /\ all_flights' = all_flights \o flights
    /\ flights' = <<>>
    /\ src_pos' = src_pos + 1
    /\ UNCHANGED <<pc, gaz_vars, tables, sorted_flights, price_vars, call_vars>>

\* a faulty variant of Finish: the records with missing coordinates are
\* discarded before the sort
FinishDiscardingUnresolved ==
    /\ pc = "sources" /\ ~SourceIsOpen /\ src_pos = Len(Sources)
    /\ LET keep == {i \in 1..Len(all_flights) : ~MissingCoords(all_flights[i])}
           nth(k) == CHOOSE i \in keep : Cardinality({j \in keep : j <= i}) = k
       IN  sorted_flights' =
               SortByDate([k \in 1..Cardinality(keep) |-> all_flights[nth(k)]])
    /\ all_flights' = KeepPriced(all_flights)
    /\ pc' = "done"
    /\ UNCHANGED <<gaz_vars, tables, src_pos, flights, price_vars, call_vars>>

\* lines 481-560: the sort, the filter of line 523 (on all_flights), and the
\* text serialised from sorted_flights
Finish ==
    /\ pc = "sources" /\ ~SourceIsOpen /\ src_pos = Len(Sources)
    /\ sorted_flights' = SortByDate(all_flights)
    /\ all_flights' = KeepPriced(all_flights)
    /\ pc' = "done"
    /\ UNCHANGED <<gaz_vars, tables, src_pos, flights, price_vars, call_vars>>

----------------------------------------------------------------------------
(* Specifications *)

\* a run of process_flights_data over the four sources
Init ==
    /\ InitState
    /\ dur_call = NoDurationCall /\ date_call = NoDateCall
    /\ base_price = NULL
    /\ ref_table \in {[status |-> "missing", rows |-> <<>>],
                      [status |-> "unreadable", rows |-> <<>>],
                      [status |-> "ok", rows |-> PipelineRefRows]}

Next ==
    \/ LoadMissing \/ LoadUnreadable \/ LoadRow \/ LoadDone
    \/ SourceMissing \/ SourceUnreadable \/ SourceOpen
    \/ ProcessRow \/ SourceDone \/ Finish

Spec == Init /\ [][Next]_vars

\* the gazetteer and the resolver, over every reference table within the bound
InitGaz ==
    /\ InitState
    /\ dur_call = NoDurationCall /\ date_call = NoDateCall
    /\ base_price = NULL
    /\ ref_table \in {[status |-> "ok", rows |-> rows] : rows \in SeqsUpTo(RefRows, MaxRefRows)}

NextGaz == LoadRow \/ LoadDone \/ Resolve

SpecGaz == InitGaz /\ [][NextGaz]_vars

\* calculate_prices, called on every base price within the bound
Quote ==
    /\ \E m \in 1..Len(Multipliers) :
          prices' = calculate_prices(base_price, Multipliers[m])
    /\ UNCHANGED <<pc, gaz_vars, run_vars, base_price, call_vars>>

InitPrices ==
    /\ InitState
    /\ dur_call = NoDurationCall /\ date_call = NoDateCall
    /\ ref_table = [status |-> "ok", rows |-> <<>>]
    /\ base_price \in BasePrices

NextPrices == Quote

SpecPrices == InitPrices /\ [][NextPrices]_vars

\* the points estimate_duration is called on: no coordinates, the points of
\* the reference rows, and points on the equator
DurationPoints ==
    {NoCoords, <<43, 7>>, <<45, 12>>, <<41, 12>>, <<42, 13>>, <<51, 0>>, <<0, 7>>, <<0, 0>>}

\* estimate_duration, called on every two of the points
EstimateDuration ==
    /\ ~dur_call.called
    /\ dur_call' = [dur_call EXCEPT
                       !.result = estimate_duration(dur_call.coords[1], dur_call.coords[2],
                                                    dur_call.coords[3], dur_call.coords[4]),
                       !.called = TRUE]
    /\ UNCHANGED <<pc, gaz_vars, run_vars, price_vars, date_call, lookups>>

\* the date cells format_date is called on
DateCells ==
    { Str(<<"2","0","2","4","-","1","2","-","2","5">>), Str(<<"1","5","/","0","6">>), Str(<<"g","a","r","b","a","g","e">>), Str(<<"2","0","2","4","-","0","2","-","2","9">>),
      Str(<<"2","9","/","0","2","/","2","0","2","4">>), Str(<<"D","e","c","e","m","b","e","r"," ","2","0">>), Str(<<"5"," ","J","a","n">>), Str(<<"1","5","/","0","6","/","2","0","2","5">>),
      Str(<<"3","1","/","0","4">>), Str(<<" ","1","/","1"," ">>), NaN, None }

\* format_date, called on every one of the cells
FormatDate ==
    /\ ~date_call.called
    /\ date_call' = [date_call EXCEPT !.result = format_date(date_call.arg),
                                       !.called = TRUE]
    /\ UNCHANGED <<pc, gaz_vars, run_vars, price_vars, dur_call, lookups>>

InitDerived ==
    /\ InitState
    /\ base_price = NULL
    /\ ref_table = [status |-> "ok", rows |-> <<>>]
    /\ \E from \in DurationPoints, to \in DurationPoints :
          dur_call = [NoDurationCall EXCEPT !.coords = from \o to]
    /\ \E cell \in DateCells : date_call = [NoDateCall EXCEPT !.arg = cell]

NextDerived == EstimateDuration \/ FormatDate

SpecDerived == InitDerived /\ [][NextDerived]_vars

\* a faulty variant of Lookup: the pair found is kept in cities_to_coords
\* under the name that was looked up
LookupCaching ==
    /\ pc = "sources" /\ Len(lookups) < MaxLookups
    /\ \E location \in LookupNames :
          /\ lookups' = Append(lookups,
                 [location |-> location,
                  result |-> get_airport_coordinates(location, airports_dict).val])
          /\ airports_dict' =
                 IF IsStr(location)
                 THEN [airports_dict EXCEPT !.cities_to_coords =
                          Append(@, <<NormalizedLocation(location.s),
                                      get_airport_coordinates(location, airports_dict).val>>)]
                 ELSE airports_dict
    /\ UNCHANGED <<pc, ref_table, ref_pos, resolved, run_vars, price_vars,
                   dur_call, date_call>>

\* one more call of get_airport_coordinates on the loaded gazetteer (lines
\* 167-260): the pair returned is recorded; the function assigns to no
\* index of airports_dict
Lookup ==
    /\ pc = "sources" /\ Len(lookups) < MaxLookups
    /\ \E location \in LookupNames :
          lookups' = Append(lookups,
              [location |-> location,
               result |-> get_airport_coordinates(location, airports_dict).val])
    /\ UNCHANGED <<pc, gaz_vars, run_vars, price_vars, dur_call, date_call>>

\* calls of the resolver one after the other on one loaded gazetteer
InitLookups ==
    /\ InitState
    /\ dur_call = NoDurationCall /\ date_call = NoDateCall
    /\ base_price = NULL
    /\ ref_table \in {[status |-> "ok", rows |-> rows] : rows \in LookupTables}

NextLookups == LoadRow \/ LoadDone \/ Lookup

SpecLookups == InitLookups /\ [][NextLookups]_vars

----------------------------------------------------------------------------
(* Properties.  What the properties say of cities, dates and prices is     *)
(* stated here from the texts and the numbers, apart from the operators    *)
(* that model the code.                                                    *)

\* the number of elements of a sequence that satisfy P
Count(s, P(_)) == Cardinality({i \in 1..Len(s) : P(s[i])})

\* the elements of s that satisfy P, in their order
Filter(s, P(_)) ==
    LET keep == {i \in 1..Len(s) : P(s[i])}
        nth(k) == CHOOSE i \in keep : Cardinality({j \in keep : j <= i}) = k
    IN  [k \in 1..Cardinality(keep) |-> s[nth(k)]]

\* a coordinate pair of the record is (null, null)
Unresolved(f) ==
    \/ f.originLat = NULL /\ f.originLon = NULL
    \/ f.destLat = NULL /\ f.destLon = NULL

\* the rows of all sources that gave a record
ParsedRows ==
    LET RECURSIVE Sum(_)
        Sum(i) == IF i = 0 THEN 0
                  ELSE Count(tables[i].parsed, LAMBDA b : b # NULL) + Sum(i - 1)
    IN  Sum(Len(tables))

(* C1 *)

\* C1: no record with flyPrivatePrice < 100 is in the collection that
\* process_flights_data serialises into the text it returns
C1_NoRecordBelow100InOutput ==
    pc = "done" =>
        \A n \in 1..Len(sorted_flights) : sorted_flights[n].flyPrivatePrice >= 100

(* C2 *)

CalendarDate(f) ==
    LET words == SplitWS(f.date)
        month == MonthOfName(words[1])
    IN  <<IF month = 12 THEN 2024 ELSE 2025, month, DigitsValue(words[2])>>

Earlier(a, b) ==
    \/ a[1] < b[1]
    \/ a[1] = b[1] /\ a[2] < b[2]
    \/ a[1] = b[1] /\ a[2] = b[2] /\ a[3] < b[3]

Orderings(n) ==
    {p \in [1..n -> 1..n] : \A a, b \in 1..n : a # b => p[a] # p[b]}

\* out holds the elements of in, ascending by calendar date, those of one
\* date in the order they have in `in`
StableSortOf(out, in) ==
    /\ Len(out) = Len(in)
    /\ \E p \in Orderings(Len(in)) :
          /\ \A k \in 1..Len(in) : out[k] = in[p[k]]
          /\ \A a, b \in 1..Len(in) :
                a < b =>
                    \/ Earlier(CalendarDate(out[a]), CalendarDate(out[b]))
                    \/ /\ CalendarDate(out[a]) = CalendarDate(out[b])
                       /\ p[a] < p[b]

SourceIndex(source) == CHOOSE i \in 1..Len(Sources) : Sources[i] = source

\* the records stand in source order, and those of one source in the order
\* of the rows that gave them (compared by the price derived from each row)
AggregatedInOrder(list) ==
    /\ \A a, b \in 1..Len(list) :
          a < b => SourceIndex(list[a].operatedBy) <= SourceIndex(list[b].operatedBy)
    /\ \A i \in 1..Len(tables) :
          LET records == Filter(list, LAMBDA f : f.operatedBy = Sources[i])
              bases == Filter(tables[i].parsed, LAMBDA b : b # NULL)
          IN  /\ Len(records) = Len(bases)
              /\ \A k \in 1..Len(bases) :
                    records[k].flyPrivatePrice = (bases[k] * 12 + 999) \div 1000

\* C3: the returned collection is the stable sort of the aggregated records
\* by calendar date (December in 2024, the other months in 2025), and the
\* aggregated records stand in source order, then row order
C3_StableSortByCalendarDate ==
    [][pc = "sources" /\ pc' = "done" =>
          /\ AggregatedInOrder(all_flights)
          /\ StableSortOf(sorted_flights', all_flights)]_vars

\* a run returned the CatchAJet flight of December 20 before the
\* LuxAviation flight of January 5, which was aggregated first
C3_DecemberBeforeJanuary ==
    /\ pc = "done"
    /\ Len(sorted_flights) = 2
    /\ sorted_flights[1].date = <<"D","e","c","e","m","b","e","r"," ","2","0">>
    /\ sorted_flights[1].operatedBy = "catchajet"
    /\ sorted_flights[2].date = <<"J","a","n","u","a","r","y"," ","0","5">>
    /\ sorted_flights[2].operatedBy = "luxaviation"

(* C4, C5: the gazetteer *)

HasCoords(row) == row.latitude # NULL /\ row.longitude # NULL
HasCity(row) == IsStr(row.region_name) /\ Strip(row.region_name.s) # <<>>

\* the cleaned city name of a row and the key it normalizes to
CityOf(row) ==
    IF IsStr(row.region_name) THEN CleanStr(Strip(row.region_name.s)) ELSE <<>>
CityKey(row) == normalize_string(Str(CityOf(row)))

CodeOf(cell) == IF IsStr(cell) THEN Strip(cell.s) ELSE <<>>

\* the first row read with a city, both coordinates and the key
FirstRowOf(key) ==
    FirstIdx(1, ref_pos, LAMBDA j : /\ HasCity(ref_table.rows[j])
                                    /\ HasCoords(ref_table.rows[j])
                                    /\ CityKey(ref_table.rows[j]) = key)

EntryCoords(d, key) ==
    IF DictHas(d, key) THEN <<DictGet(d, key).latitude, DictGet(d, key).longitude>>
    ELSE <<>>

\* C4: after loading, every lookup by a normalized city (the exact tier of
\* get_airport_coordinates included) and by the IATA or ICAO code of the
\* entry retained for it gives the coordinates of the first row of that city
C4_FirstSeenCoordsEverywhere ==
    pc = "sources" =>
        \A j \in 1..Len(ref_table.rows) :
            HasCity(ref_table.rows[j]) /\ HasCoords(ref_table.rows[j]) =>
                LET key == CityKey(ref_table.rows[j])
                    first == ref_table.rows[FirstRowOf(key)]
                    coords == <<first.latitude, first.longitude>>
                IN  /\ EntryCoords(airports_dict.by_normalized_city, key) = coords
                    /\ CodeOf(first.iata) # <<>> =>
                          EntryCoords(airports_dict.by_iata, CodeOf(first.iata)) = coords
                    /\ CodeOf(first.icao) # <<>> =>
                          EntryCoords(airports_dict.by_icao, CodeOf(first.icao)) = coords
                    /\ DictHas(airports_dict.cities_to_coords, key)
                    /\ DictGet(airports_dict.cities_to_coords, key) = coords
                    /\ get_airport_coordinates(Str(key), airports_dict) = Ret(coords)

\* C5 as stated: the key of every row read that has both coordinates is in
\* the index, and a row that lacks one has created no entry
C5_EveryRowWithCoordsIndexed ==
    LET read == {ref_table.rows[j] : j \in 1..ref_pos}
    IN  /\ \A row \in read :
              HasCoords(row) =>
                  /\ DictHas(airports_dict.by_normalized_city, CityKey(row))
                  /\ DictHas(airports_dict.cities_to_coords, CityKey(row))
        /\ DictKeys(airports_dict.cities_to_coords)
               \subseteq {CityKey(row) : row \in {r \in read : HasCoords(r)}}

\* C5, amended: the key of every row read that has a city name and both
\* coordinates is in the index; the entries of every index come from such
\* rows only, so a row without a latitude, a longitude or a city creates none
C5_RowsWithCityAndCoordsIndexed ==
    LET good == {ref_table.rows[j] : j \in
                    {i \in 1..ref_pos : /\ HasCity(ref_table.rows[i])
                                        /\ HasCoords(ref_table.rows[i])}}
    IN  /\ DictKeys(airports_dict.cities_to_coords) = {CityKey(row) : row \in good}
        /\ DictKeys(airports_dict.by_normalized_city) = {CityKey(row) : row \in good}
        /\ DictKeys(airports_dict.by_city) \subseteq {CityOf(row) : row \in good}
        /\ DictKeys(airports_dict.by_iata) \subseteq {CodeOf(row.iata) : row \in good}
        /\ DictKeys(airports_dict.by_icao) \subseteq {CodeOf(row.icao) : row \in good}

\* a table was loaded that holds a full row, a row without a latitude and a
\* row without a city: Nice alone is indexed
C5_OnlyNiceIndexed ==
    /\ pc = "sources"
    /\ ref_table.rows = <<R_Nice, R_OsloNoLat, R_NoCity>>
    /\ DictKeys(airports_dict.cities_to_coords) = {<<"n","i","c","e">>}
    /\ DictKeys(airports_dict.by_iata) = {<<"N","C","E">>}

(* C6, C7: get_airport_coordinates *)

\* C6: a name whose normalized form is a key of the gazetteer resolves to
\* the coordinates stored under that key, whatever other keys it matches by
\* a later tier and wherever they stand in the iteration order
C6_ExactTierWins ==
    resolved.called /\ IsStr(resolved.location) /\ resolved.location.s # <<>> =>
        LET c2c == airports_dict.cities_to_coords
        IN  \A i \in 1..Len(c2c) :
                c2c[i][1] = NormalizedLocation(resolved.location.s) =>
                    resolved.result = Ret(c2c[i][2])

\* "Nice" was resolved to Nice on a gazetteer that lists Venice, which
\* holds "nice" as a substring, before it
C6_NiceNotVenice ==
    /\ resolved.called
    /\ resolved.location = Str(<<"N","i","c","e">>)
    /\ ref_table.rows = <<R_Venice, R_Nice>>
    /\ resolved.result = Ret(<<43, 7>>)

\* no tier has a hit for the location on the gazetteer d
NoTierMatches(location, d) ==
    \/ ~IsStr(location)
    \/ location.s = <<>>
    \/ LET normalized == NormalizedLocation(location.s)
           keys == DictKeys(d.cities_to_coords)
           code == BracketedCode(location.s)
       IN  /\ \A k \in keys : ~Contains(k, normalized) /\ ~Contains(normalized, k)
           /\ \/ SplitWS(normalized) = <<>>
              \/ /\ \A k \in keys : ~StartsWith(k, SplitWS(normalized)[1])
                 /\ code = <<>> \/ (~DictHas(d.by_iata, code) /\ ~DictHas(d.by_icao, code))
                 /\ Len(normalized) < 3
                        \/ \A k \in keys : ~StartsWith(k, SubSeq(normalized, 1, 3))

\* C7: get_airport_coordinates raises on no input and no gazetteer: it
\* returns a pair, and the pair (null, null) when no tier matches
C7_NeverRaises ==
    resolved.called =>
        /\ ~resolved.result.exc
        /\ Len(resolved.result.val) = 2
        /\ NoTierMatches(resolved.location, airports_dict) =>
               resolved.result.val = <<NULL, NULL>>

\* a float NaN was looked up, on which the cleaning raises, and
\* (null, null) came back
C7_NaNGivesNulls ==
    /\ resolved.called
    /\ resolved.location = NaN
    /\ resolved.result = Ret(<<NULL, NULL>>)

(* C8 *)

\* a source whose file is missing or unreadable reads no row, and at the
\* end every source has as many records as it has rows that parsed
FailureIsolated ==
    /\ \A i \in 1..Len(tables) :
          tables[i].status # "ok" => tables[i].rows = <<>>
    /\ pc = "done" =>
          /\ Len(tables) = Len(Sources)
          /\ \A i \in 1..Len(Sources) :
                Count(sorted_flights, LAMBDA f : f.operatedBy = Sources[i])
                    = Count(tables[i].parsed, LAMBDA b : b # NULL)

LoadEnabled ==
    \/ ref_table.status \in {"missing", "unreadable"}
    \/ ref_table.status = "ok" /\ ref_pos <= Len(ref_table.rows)

\* and while the sources are processed: the open source can be closed, the
\* next one opened or, after the last one, the result returned
SourcesEnabled ==
    \/ Len(tables) = src_pos + 1
    \/ Len(tables) = src_pos /\ src_pos <= Len(Sources)

NoDigit(text) == \A i \in 1..Len(text) : ~IsDigit(text[i])

\* the row holds no price that can be parsed: no digit in the price cell,
\* or, for Sovereign, no part with a pound sign
PriceUnparseable(source, row) ==
    IF source = "sovereign"
    THEN IsStr(row.flightinfo) /\ ~Contains(row.flightinfo.s, <<"pound">>)
    ELSE IsStr(row.price) /\ NoDigit(row.price.s)

\* the fields of the row other than the price are well formed
RestWellFormed(source, row) ==
    CASE source = "luxaviation" ->
            /\ IsStr(row.route) /\ Contains(row.route.s, <<" ","A","i","r","p","o","r","t"," ">>)
            /\ \A cell \in {row.aircraft, row.maxpax, row.WiFi, row.Pets, row.Beds} :
                  Has(cell)
      [] source = "catchajet" ->
            IsStr(row.departure) /\ IsStr(row.arrival) /\ Has(row.maxpax)
      [] source = "mirai" ->
            IsStr(row.route) /\ Contains(row.route.s, <<" ","emdash"," ">>) /\ IsStr(row.maxpax)
      [] source = "sovereign" ->
            IsStr(row.flightinfo) /\ Len(SplitOn(row.flightinfo.s, <<"TAB">>)) >= 2

\* the CatchAJet price text, without its prefix, is a number below 500
QuotedBelow500(row) ==
    /\ IsStr(row.price)
    /\ LET quoted == ParseFloat(Replace(Strip(Replace(row.price.s, CatchAJetPrefix, <<>>)),
                                         <<",">>, <<>>))
       IN  ~quoted.exc /\ quoted.val < 50000

\* C9: in every adapter a row whose price cannot be parsed is not skipped
\* and has the base price 4000, and so has a CatchAJet row priced below 500
C9_UnparseablePriceIs4000 ==
    \A i \in 1..Len(tables) :
        \A k \in 1..Len(tables[i].rows) :
            LET row == tables[i].rows[k]
                base == tables[i].parsed[k]
            IN  /\ RestWellFormed(Sources[i], row) /\ PriceUnparseable(Sources[i], row) =>
                      base # NULL /\ base = 400000
                /\ Sources[i] = "catchajet" /\ RestWellFormed(Sources[i], row)
                       /\ QuotedBelow500(row) =>
                      base = 400000

(* C10 *)

----------------------------------------------------------------------------
(* estimate_duration *)

AnyNull(c) == NULL \in {c[1], c[2], c[3], c[4]}
SamePoint(c) == c[1] = c[3] /\ c[2] = c[4]

\* "{hours}h {minutes:02d}m" of the great-circle minutes between the points
GreatCircleDuration(c) ==
    LET minutes == (CHOOSE e \in FlightMinutes : e[1] = c)[2]
    IN  IntText(minutes \div 60) \o <<"h"," ">> \o TwoDigits(minutes % 60) \o <<"m">>

\* C11: estimate_duration returns "0h 20m" whenever the two points are the
\* same numeric point, returns "1h 30m" if and only if a coordinate is null,
\* and for two numeric points returns the great-circle duration.
C11_DefaultIffUnresolved ==
    dur_call.called =>
        /\ (~AnyNull(dur_call.coords) /\ SamePoint(dur_call.coords)
               => dur_call.result = <<"0","h"," ","2","0","m">>)
        /\ (dur_call.result = <<"1","h"," ","3","0","m">> <=> AnyNull(dur_call.coords))
        /\ (~AnyNull(dur_call.coords)
               => dur_call.result = GreatCircleDuration(dur_call.coords))

----------------------------------------------------------------------------
(* format_date *)

\* the cells that are a valid date in one of the five shapes, with the month
\* and the day each one names
ValidDateCells ==
    { <<<<"2","0","2","4","-","1","2","-","2","5">>, <<"D","e","c","e","m","b","e","r"," ","2","5">>>>, <<<<"1","5","/","0","6">>, <<"J","u","n","e"," ","1","5">>>>,
      <<<<"2","0","2","4","-","0","2","-","2","9">>, <<"F","e","b","r","u","a","r","y"," ","2","9">>>>, <<<<"2","9","/","0","2","/","2","0","2","4">>, <<"F","e","b","r","u","a","r","y"," ","2","9">>>>,
      <<<<"D","e","c","e","m","b","e","r"," ","2","0">>, <<"D","e","c","e","m","b","e","r"," ","2","0">>>>, <<<<"5"," ","J","a","n">>, <<"J","a","n","u","a","r","y"," ","0","5">>>>,
      <<<<"1","5","/","0","6","/","2","0","2","5">>, <<"J","u","n","e"," ","1","5">>>>, <<<<" ","1","/","1"," ">>, <<"J","a","n","u","a","r","y"," ","0","1">>>> }

\* C12: format_date renders every input that is a valid date in one of the
\* shapes YYYY-MM-DD, Month Day, Day Mon, DD/MM/YYYY, DD/MM as its own
\* month and day, and only an input that matches none of the shapes gives
\* the default "December 25".
C12_ValidDatesRendered ==
    date_call.called =>
        /\ \A e \in ValidDateCells :
              date_call.arg = Str(e[1]) => date_call.result = e[2]
        /\ date_call.result = <<"D","e","c","e","m","b","e","r"," ","2","5">> =>
              \/ date_call.arg = Str(<<"2","0","2","4","-","1","2","-","2","5">>)
              \/ \A e \in ValidDateCells : date_call.arg # Str(e[1])

----------------------------------------------------------------------------
(* The LuxAviation adapter *)

\* the step reads one more row of the open source
RowRead ==
    /\ pc = "sources" /\ Len(tables) = src_pos + 1
    /\ Len(tables') = Len(tables)
    /\ Len(tables'[Len(tables')].rows) = Len(tables[Len(tables)].rows) + 1

\* the last row read of the open source, and the base price parsed from it
LastRow(t) == t[Len(t)].rows[Len(t[Len(t)].rows)]
LastParsed(t) == t[Len(t)].parsed[Len(t[Len(t)].parsed)]

\* names of cities, price texts "EUR <n>" with the number n in hundredths,
\* seat counts, and the cells that say yes
PlainCities == {<<"P","a","r","i","s">>, <<"N","i","c","e">>, <<"R","o","m","e">>}
EURQuotes == {<<<<"E","U","R"," ","3",",","5","0","0">>, 350000>>, <<<<"E","U","R"," ","5","0">>, 5000>>}
SeatCounts == {<<"8">>}
YesCells == {Str(<<"y","e","s">>), Str(<<"Y","e","s">>), Str(<<"Y","E","S">>)}

\* the record is that of a LuxAviation row "<A> Airport <B>" quoted at n
\* with k seats and WiFi
LuxRecord(f, A, B, n, k) ==
    /\ f.origin = A /\ f.destination = B
    /\ f.operatedBy = "luxaviation"
    /\ Len(f.amenities) >= 4
    /\ SubSeq(f.amenities, 1, 3)
           = <<<<"G","r","o","u","n","d"," ","T","r","a","n","s","p","o","r","t","a","t","i","o","n">>, <<"C","a","t","e","r","i","n","g">>, <<"M","a","x"," ","P","a","s","s","e","n","g","e","r","s",":"," ">> \o k>>
    /\ \E i \in 1..Len(f.amenities) : f.amenities[i] = <<"W","i","F","i">>
    /\ f.flyPrivatePrice * 1000 >= n * 12
    /\ (f.flyPrivatePrice - 1) * 1000 < n * 12

\* C13: a LuxAviation row whose route is "<A> Airport <B>", whose price is
\* "EUR <n>" with thousands separators, with maxpax k and WiFi yes, gives a
\* record with origin A, destination B, base price n, amenities that start
\* with "Ground Transportation", "Catering", "Max Passengers: k" and
\* contain "WiFi", and flyPrivatePrice the ceiling of 1.2 n.
C13_LuxaviationRecord ==
    [][RowRead /\ Sources[src_pos + 1] = "luxaviation" =>
          \A A \in PlainCities, B \in PlainCities, q \in EURQuotes, k \in SeatCounts :
              /\ LastRow(tables').route = Str(A \o <<" ","A","i","r","p","o","r","t"," ">> \o B)
              /\ LastRow(tables').price = Str(q[1])
              /\ LastRow(tables').maxpax = Num(k)
              /\ LastRow(tables').WiFi \in YesCells
              => /\ Len(flights') = Len(flights) + 1
                 /\ LastParsed(tables') = q[2]
                 /\ LuxRecord(flights'[Len(flights')], A, B, q[2], k)]_vars

\* the row "Paris Airport Nice" quoted at "EUR 3,500" gave the record Paris,
\* Nice, 3500, 4200
C13_ParisNice4200 ==
    /\ pc = "sources" /\ Len(tables) = 1 /\ src_pos = 0
    /\ Len(flights) = 1
    /\ tables[1].rows = <<L_ParisNice>>
    /\ tables[1].parsed = <<350000>>
    /\ LuxRecord(flights[1], <<"P","a","r","i","s">>, <<"N","i","c","e">>, 350000, <<"8">>)
    /\ flights[1].flyPrivatePrice = 4200

----------------------------------------------------------------------------
(* Duplicate rows *)

\* two records of one flight: the same operator, places, date, aircraft,
\* amenities and price (the charter price is drawn at random for each record)
SameFlight(f, g) ==
    /\ f.operatedBy = g.operatedBy
    /\ f.origin = g.origin /\ f.destination = g.destination
    /\ f.date = g.date /\ f.aircraft = g.aircraft
    /\ f.amenities = g.amenities
    /\ f.flyPrivatePrice = g.flyPrivatePrice

\* the table of source t holds the same row twice
HasTwinRows(t) ==
    \E j \in 1..Len(tables[t].rows), k \in 1..Len(tables[t].rows) :
        j < k /\ tables[t].rows[j] = tables[t].rows[k]

\* C14: when the file of a source holds two identical raw rows, the
\* collection returned by process_flights_data holds at most one record of
\* that flight.
C14_OneRecordPerFlight ==
    pc = "done" =>
        \A t \in 1..Len(tables) :
            tables[t].status = "ok" /\ HasTwinRows(t) =>
                \A a \in 1..Len(sorted_flights), b \in 1..Len(sorted_flights) :
                    /\ a < b
                    /\ sorted_flights[a].operatedBy = Sources[t]
                    => ~SameFlight(sorted_flights[a], sorted_flights[b])

----------------------------------------------------------------------------
(* The bracketed code of a route endpoint *)

\* the raw text of endpoint e (1: origin, 2: destination) of a LuxAviation
\* route
RawEndpoint(route, e) == Strip(SplitOn(route, <<" ","A","i","r","p","o","r","t"," ">>)[e])

\* the coordinates the record carries for endpoint e
EndpointCoords(f, e) ==
    IF e = 1 THEN <<f.originLat, f.originLon>> ELSE <<f.destLat, f.destLon>>

\* the name matches no key of the gazetteer d exactly, as a substring either
\* way, or by its first word
NoNameMatch(raw, d) ==
    LET normalized == NormalizedLocation(raw)
    IN  /\ SplitWS(normalized) # <<>>
        /\ \A k \in DictKeys(d.cities_to_coords) :
              /\ ~Contains(k, normalized) /\ ~Contains(normalized, k)
              /\ ~StartsWith(k, SplitWS(normalized)[1])

\* the entry registered under the code: the IATA index first, the ICAO
\* index second
CodeEntry(code, d) ==
    IF DictHas(d.by_iata, code) THEN DictGet(d.by_iata, code)
                                ELSE DictGet(d.by_icao, code)

\* C16: a route endpoint whose raw text holds a parenthesised code of 3-4
\* uppercase letters, and whose name matches no gazetteer key under tiers
\* 2-4, gets in the record the coordinates of the entry registered under
\* that code, IATA index first, ICAO index second.
C16_CodeTierInPipeline ==
    [][RowRead /\ Sources[src_pos + 1] = "luxaviation"
              /\ Len(flights') = Len(flights) + 1 =>
          \A e \in 1..2 :
              LET raw == RawEndpoint(LastRow(tables').route.s, e)
                  code == BracketedCode(raw)
              IN  /\ code # <<>>
                  /\ NoNameMatch(raw, airports_dict)
                  /\ DictHas(airports_dict.by_iata, code)
                         \/ DictHas(airports_dict.by_icao, code)
                  => EndpointCoords(flights'[Len(flights')], e)
                         = <<CodeEntry(code, airports_dict).latitude,
                             CodeEntry(code, airports_dict).longitude>>]_vars

----------------------------------------------------------------------------
(* Repeated resolution *)

====
